---------------------------- MODULE Spec2Model ----------------------------
(***************************************************************************)
(* The sharded leaderboard cache of the minigames backend (server-rs):     *)
(* cache.rs (the Redis client wrapper), services/leaderboard.rs (the       *)
(* sharded sorted-set service) and routes/scores.rs (the score submission  *)
(* handler that writes the durable store and then dispatches the cache     *)
(* update as a detached task).                                             *)
(***************************************************************************)
EXTENDS Integers, Sequences, FiniteSets, Bags, TLC

(***************************************************************************)
(* Identifiers.  Player identifiers are strings; Utf8 gives the bytes the  *)
(* hasher is fed (TLA+ strings are atomic, so the bytes are tabulated).    *)
(***************************************************************************)
Players == {"a", "b", "c", "e"}

Utf8 == [a |-> <<97>>, b |-> <<98>>, c |-> <<99>>, e |-> <<101>>]

Tenants == {"t1"}

Games == {"g1"}

(***************************************************************************)
(* 64-bit words as four 16-bit limbs <<l0, l1, l2, l3>>, l0 the least      *)
(* significant: TLC's integers are 32 bits wide, and the hash is computed  *)
(* modulo 2^64.                                                            *)
(***************************************************************************)
Limb == 2 ^ 16

RECURSIVE XOR16(_, _, _)
XOR16(x, y, n) ==
    IF n = 0 THEN 0
    ELSE (((x % 2) + (y % 2)) % 2) + 2 * XOR16(x \div 2, y \div 2, n - 1)

ByteAt(bs, i) == IF i <= Len(bs) THEN bs[i] ELSE 0

\* The little-endian u64 of up to 8 bytes (missing bytes are zero).
WordOfBytes(bs) ==
    << ByteAt(bs, 1) + 256 * ByteAt(bs, 2), ByteAt(bs, 3) + 256 * ByteAt(bs, 4),
       ByteAt(bs, 5) + 256 * ByteAt(bs, 6), ByteAt(bs, 7) + 256 * ByteAt(bs, 8) >>

XOR64(x, y) ==
    << XOR16(x[1], y[1], 16), XOR16(x[2], y[2], 16),
       XOR16(x[3], y[3], 16), XOR16(x[4], y[4], 16) >>

\* rotate_left(r), 0 <= r < 64.
ROTL64(x, r) ==
    LET q == r \div 16
        s == r % 16
        L(i) == x[((i + 8 - q) % 4) + 1]
        limb(i) == ((L(i) * (2 ^ s)) % Limb) + (L(i + 3) \div (2 ^ (16 - s)))
    IN  << limb(0), limb(1), limb(2), limb(3) >>

\* wrapping_add: the carry out of the top limb is dropped.
ADD64(x, y) ==
    LET s1 == x[1] + y[1]
        s2 == x[2] + y[2] + (s1 \div Limb)
        s3 == x[3] + y[3] + (s2 \div Limb)
        s4 == x[4] + y[4] + (s3 \div Limb)
    IN  << s1 % Limb, s2 % Limb, s3 % Limb, s4 % Limb >>

\* x % n for a 64-bit word x and 0 < n <= 32768, most significant limb first.
MOD64(x, n) ==
    LET r4 == x[4] % n
        r3 == (r4 * Limb + x[3]) % n
        r2 == (r3 * Limb + x[2]) % n
    IN  (r2 * Limb + x[1]) % n

(***************************************************************************)
(* std::collections::hash_map::DefaultHasher::new() is SipHash-1-3 with    *)
(* the key (0, 0).  The state is <<v0, v1, v2, v3>>.                       *)
(***************************************************************************)
SipInit ==
    << WordOfBytes(<<117, 101, 115, 112, 101, 109, 111, 115>>),   \* 0x736f6d6570736575
       WordOfBytes(<<109, 111, 100, 110, 97, 114, 111, 100>>),    \* 0x646f72616e646f6d
       WordOfBytes(<<97, 114, 101, 110, 101, 103, 121, 108>>),    \* 0x6c7967656e657261
       WordOfBytes(<<115, 101, 116, 121, 98, 100, 101, 116>>) >>  \* 0x7465646279746573

\* The one element of a singleton set: {e(x) : x \in {v}} evaluates v once.
The(S) == CHOOSE x \in S : TRUE

SipRound(v) ==
    LET a0 == ADD64(v[1], v[2])
        a1 == XOR64(ROTL64(v[2], 13), a0)
        a2 == ROTL64(a0, 32)
        b2 == ADD64(v[3], v[4])
        b3 == XOR64(ROTL64(v[4], 16), b2)
        c0 == ADD64(a2, b3)
        c3 == XOR64(ROTL64(b3, 21), c0)
        d2 == ADD64(b2, a1)
        d1 == XOR64(ROTL64(a1, 17), d2)
        e2 == ROTL64(d2, 32)
    IN  <<c0, d1, e2, c3>>

RECURSIVE SipRounds(_, _)
SipRounds(v, n) ==
    IF n = 0 THEN v ELSE The({SipRounds(w, n - 1) : w \in {SipRound(v)}})

\* One message word: v3 ^= m; one c-round; v0 ^= m.
SipCompress(v, m) ==
    The({ <<XOR64(w[1], m), w[2], w[3], w[4]>> :
            w \in {SipRounds(u, 1) : u \in {<<v[1], v[2], v[3], XOR64(v[4], m)>>}} })

RECURSIVE SipBlocks(_, _)
SipBlocks(v, bs) ==
    IF Len(bs) < 8 THEN v
    ELSE The({SipBlocks(w, SubSeq(bs, 9, Len(bs))) :
                w \in {SipCompress(v, WordOfBytes(SubSeq(bs, 1, 8)))}})

\* finish(): the tail bytes with the length (mod 256) in the top byte, then
\* v2 ^= 0xff and three d-rounds.
SipHash13(bs) ==
    LET n    == Len(bs)
        full == n - (n % 8)
        tail == SubSeq(bs, full + 1, n)
        last == WordOfBytes(tail \o [i \in 1..(7 - Len(tail)) |-> 0] \o <<n % 256>>)
    IN  The({ XOR64(XOR64(f[1], f[2]), XOR64(f[3], f[4])) :
                f \in {SipRounds(u, 3) :
                    u \in {<<v[1], v[2], XOR64(v[3], WordOfBytes(<<255>>)), v[4]>> :
                        v \in {SipCompress(w, last) :
                            w \in {SipBlocks(SipInit, SubSeq(bs, 1, full))}}}} })

\* impl Hash for str: the bytes of the string, then the byte 0xff.
\* The hashes of the identifiers in use, computed once.
HashOf == [p \in Players |-> SipHash13(Utf8[p] \o <<255>>)]

(***************************************************************************)
(* Configuration (config.rs) and the bounds of the model.                  *)
(***************************************************************************)
\* LEADERBOARD_SHARDS, default 8: state.config.leaderboard.shard_count.
ShardCount == 8

\* cache.expire(&key, 7200): the shard TTL in seconds.
TtlSecs == 7200

\* LIMIT 10000 of the rebuild query.
RebuildLimit == 10000

\* The score range submit_score accepts.
MinScore == 0

MaxScore == 999999

\* redis.key_prefix
KeyPrefix == "stem:"

\* Time advances in steps of TtlSecs / TicksPerTtl seconds.
TicksPerTtl == 2

TickSecs == TtlSecs \div TicksPerTtl

\* Entry ages are counted up to the first value above the TTL.
AgeCap == TtlSecs + TickSecs

\* Leaderboard calls in flight at once (update_score, rebuild_from_db),
\* submissions, and the largest page size k the read operations are asked
\* for.
MaxCalls == 2

MaxSubs == 2

MaxK == 3

\* The shard counts looked at: 1..MaxShards.
MaxShards == 8

VARIABLES
    redis,    \* the cache backend: key -> [zset, age, volatile, ttl]
    db,       \* game_progress: <<tenant, game, player>> -> [high_score, stars]
    rowlock,  \* row locks of open transactions: row -> submission; a row is
              \* a game_progress key or a players key <<tenant, player>>
    tasks,    \* update_score calls in flight: a bag of call records
    subs,     \* submit_score requests: id -> request record
    rb,       \* the rebuild_from_db call, if one runs
    player_achievements,  \* player_achievements: a bag of <<tenant, player, achievement>>
    rooms,    \* RoomManager.rooms: room id -> Room
    player_rooms,  \* RoomManager.player_rooms: player -> room id
    windows,  \* RateLimiter.windows: key -> [count, reset_at]
    now,      \* the system clock, in seconds
    players,  \* players: <<tenant, player>> -> [total_score, games_played]
    award_key, \* the schema: player_achievements has a unique key on
               \* (player_id, tenant_id, achievement_id)
    overflow_checks  \* the build: integer overflow panics (the default of
                     \* a debug build) or wraps (the default of a release
                     \* build)

\* The state of the achievement service, the room manager and the rate
\* limiter, which the leaderboard operations leave alone.
services == <<player_achievements, rooms, player_rooms, windows, now, award_key,
              overflow_checks>>

aside == <<player_achievements, rooms, player_rooms, windows, now, players, award_key,
           overflow_checks>>

vars == <<redis, db, rowlock, tasks, subs, rb, player_achievements, rooms,
          player_rooms, windows, now, players, award_key, overflow_checks>>

\* The players that have a row in tenant t1 at the start (routes/auth.rs,
\* guest and register, insert it).
Registered == {"a", "b", "e"}

\* The players rows next to a game_progress table each row of which one
\* committed submission has written: total_score is the score submitted and
\* games_played is 1 for a player with a row of game g1, both 0 without.
TotalsOf(d) ==
    [r \in {<<"t1", p>> : p \in Registered} |->
        IF <<"t1", "g1", r[2]>> \in DOMAIN d
        THEN [total_score |-> d[<<"t1", "g1", r[2]>>].high_score, games_played |-> 1]
        ELSE [total_score |-> 0, games_played |-> 0]]

TablesInit ==
    /\ player_achievements = EmptyBag
    /\ rooms = << >>
    /\ player_rooms = << >>
    /\ windows = << >>
    /\ now = 0
    /\ players = TotalsOf(db)

\* The build matters to one computation, the stop index of the top-k reads
\* for k = 2^63: where no request passes that k, the build is taken without
\* overflow checks.
ReleaseBuild == overflow_checks = FALSE

\* The schema is not part of the sources: where the awards are not looked
\* at, the table is taken with its unique key.
AsideInit ==
    /\ TablesInit
    /\ award_key = TRUE
    /\ ReleaseBuild

(***************************************************************************)
(* The cache backend (Redis): sorted sets with a per-key expiry.  A key    *)
(* exists iff it is in DOMAIN redis; zset maps members to scores; age is   *)
(* the time since the member was last written (a clock reading, not state  *)
(* of the server); volatile says whether the key has a TTL, ttl the        *)
(* seconds left.                                                           *)
(***************************************************************************)
Min(x, y) == IF x <= y THEN x ELSE y

Max(x, y) == IF x >= y THEN x ELSE y

Restrict(f, S) == [k \in S |-> f[k]]

\* A write that replaces the sorted set by the one member.
ZADDReplace(r, key, member, score) ==
    IF key \in DOMAIN r
    THEN [r EXCEPT ![key] =
            [@ EXCEPT !.zset = (member :> score),
                      !.age  = (member :> 0)]]
    ELSE (key :> [zset |-> (member :> score), age |-> (member :> 0),
                  volatile |-> FALSE, ttl |-> 0]) @@ r

\* ZADD key score member: inserts or overwrites; a new key has no TTL.
ZADD(r, key, member, score) ==
    IF key \in DOMAIN r
    THEN [r EXCEPT ![key] =
            [@ EXCEPT !.zset = (member :> score) @@ @,
                      !.age  = (member :> 0) @@ @]]
    ELSE (key :> [zset |-> (member :> score), age |-> (member :> 0),
                  volatile |-> FALSE, ttl |-> 0]) @@ r

\* EXPIRE key secs: sets the TTL of an existing key (secs > 0).
EXPIRE(r, key, secs) ==
    IF key \in DOMAIN r
    THEN [r EXCEPT ![key] = [@ EXCEPT !.volatile = TRUE, !.ttl = secs]]
    ELSE r

\* ZSCORE key member: <<score>>, or << >> for nil.
ZSCORE(r, key, member) ==
    IF key \in DOMAIN r /\ member \in DOMAIN r[key].zset
    THEN <<r[key].zset[member]>> ELSE << >>

\* Byte-wise order of two strings (memcmp, the shorter first on a tie).
RECURSIVE LexLess(_, _)
LexLess(x, y) ==
    IF y = << >> THEN FALSE
    ELSE IF x = << >> THEN TRUE
    ELSE IF Head(x) # Head(y) THEN Head(x) < Head(y)
    ELSE LexLess(Tail(x), Tail(y))

\* The whole sorted set from the highest score down; equal scores in
\* descending byte order of the member, as ZREVRANGE lists them.
RECURSIVE ZRevSeq(_)
ZRevSeq(z) ==
    IF DOMAIN z = {} THEN << >>
    ELSE LET m == CHOOSE m \in DOMAIN z :
                     \A o \in DOMAIN z \ {m} :
                         \/ z[m] > z[o]
                         \/ z[m] = z[o] /\ LexLess(Utf8[o], Utf8[m])
         IN  << <<m, z[m]>> >> \o ZRevSeq(Restrict(z, DOMAIN z \ {m}))

\* ZREVRANGE key start stop WITHSCORES: negative indexes count from the end.
ZREVRANGE(r, key, start, stop) ==
    IF key \notin DOMAIN r THEN << >>
    ELSE LET all == ZRevSeq(r[key].zset)
             n   == Len(all)
             lo  == Max(IF start < 0 THEN n + start ELSE start, 0)
             hi  == Min(IF stop < 0 THEN n + stop ELSE stop, n - 1)
         IN  IF lo > hi THEN << >> ELSE SubSeq(all, lo + 1, hi + 1)

(***************************************************************************)
(* cache.rs: the client wrapper.  Every command may fail (ok = FALSE); the *)
(* wrapper drops the error, so a failed write changes nothing and a failed *)
(* read gives the default.                                                 *)
(***************************************************************************)
key(k) == KeyPrefix \o k

\* A ZADD that only ever raises a member's score (ZADD GT).
zadd_keep_max(r, k, member, score, ok) ==
    IF ok /\ (ZSCORE(r, key(k), member) = << >> \/ ZSCORE(r, key(k), member)[1] < score)
    THEN ZADD(r, key(k), member, score) ELSE r

zadd(r, k, member, score, ok) ==
    IF ok THEN ZADD(r, key(k), member, score) ELSE r

expire(r, k, secs, ok) ==
    IF ok THEN EXPIRE(r, key(k), secs) ELSE r

zrevrange_withscores(r, k, start, stop, ok) ==
    IF ok THEN ZREVRANGE(r, key(k), start, stop) ELSE << >>

zscore(r, k, member, ok) ==
    IF ok THEN ZSCORE(r, key(k), member) ELSE << >>

(***************************************************************************)
(* services/leaderboard.rs                                                 *)
(***************************************************************************)
\* A shard numbering that starts at 1.
shard_index_from_one(player_id, shard_count) ==
    MOD64(HashOf[player_id], shard_count) + 1

shard_index(player_id, shard_count) == MOD64(HashOf[player_id], shard_count)

lb_key(tenant_id, game_id, shard) ==
    "lb:" \o tenant_id \o ":" \o game_id \o ":shard:" \o ToString(shard)

global_key(tenant_id, shard) ==
    "lb:" \o tenant_id \o ":global:shard:" \o ToString(shard)

\* score as f64: exact for every |score| <= 2^53, so for every score here.
AsF64(score) == score

\* A writer that takes the neighbouring shard.
UpdateKeyNextShard(tenant_id, game_id, player_id, shard_count) ==
    lb_key(tenant_id, game_id, (shard_index(player_id, shard_count) + 1) % shard_count)

\* update_score, lines 30-31: the key the call writes.
UpdateKey(tenant_id, game_id, player_id, shard_count) ==
    lb_key(tenant_id, game_id, shard_index(player_id, shard_count))

\* all_entries.sort_by(|a, b| b.1.partial_cmp(&a.1)): a stable sort, highest
\* score first; entries of equal score keep their order.
RECURSIVE InsertDesc(_, _)
InsertDesc(sorted, e) ==
    IF sorted = << >> THEN <<e>>
    ELSE IF Head(sorted)[2] >= e[2]
         THEN <<Head(sorted)>> \o InsertDesc(Tail(sorted), e)
         ELSE <<e>> \o sorted

\* A merge that leaves the entries in the order of the shards.
KeepOrder(entries) == entries

RECURSIVE SortDesc(_)
SortDesc(entries) ==
    IF entries = << >> THEN << >>
    ELSE InsertDesc(SortDesc(SubSeq(entries, 1, Len(entries) - 1)),
                    entries[Len(entries)])

(***************************************************************************)
(* The k of the top-k reads is a usize, and line 60 (line 106 for the      *)
(* global board) computes the stop index `k as isize - 1`.  A k above      *)
(* 2^63 is written as the negative number k - 2^64, the value of           *)
(* `k as isize`: -1 is usize::MAX.  TLC's integers have 32 bits, so the    *)
(* model's isize has 31 bits in place of 64: k = 2^63, whose `k as isize`  *)
(* is isize::MIN, is written IsizeMin, and isize::MAX is written IsizeMax. *)
(* Every count and every score of the model is far inside that range.      *)
(***************************************************************************)
IsizeMin == -(2 ^ 30)

IsizeMax == 2 ^ 30 - 1

\* The stop index `k as isize - 1` of a read that does not panic: the
\* subtraction overflows for k as isize = isize::MIN and wraps to
\* isize::MAX.
StopIndex(k) == IF k = IsizeMin THEN IsizeMax ELSE k - 1

\* get_top_k and get_global_top_k panic ('attempt to subtract with
\* overflow') and do not return: the build checks overflow, the subtraction
\* overflows, and the loop runs at least once.  The panic comes in the
\* first pass, before a command is sent.
top_k_panics(k, shard_count) ==
    overflow_checks /\ k = IsizeMin /\ shard_count > 0

\* Slices of the default number of shards, whatever shard_count is.
RECURSIVE ShardSlicesDefault(_, _, _, _, _, _, _)
ShardSlicesDefault(r, tenant_id, game_id, k, shard_count, down, shard) ==
    IF shard >= ShardCount THEN << >>
    ELSE zrevrange_withscores(r, lb_key(tenant_id, game_id, shard), 0, k - 1,
                              shard \notin down)
         \o ShardSlicesDefault(r, tenant_id, game_id, k, shard_count, down, shard + 1)

\* Slices that read every shard to its end (stop index -1), whatever k is.
RECURSIVE ShardSlicesWhole(_, _, _, _, _, _, _)
ShardSlicesWhole(r, tenant_id, game_id, k, shard_count, down, shard) ==
    IF shard >= shard_count THEN << >>
    ELSE zrevrange_withscores(r, lb_key(tenant_id, game_id, shard), 0, -1,
                              shard \notin down)
         \o ShardSlicesWhole(r, tenant_id, game_id, k, shard_count, down, shard + 1)

\* get_top_k, lines 58-62: the replies of shards shard..shard_count-1 in
\* order.  down is the set of shards whose read fails.  The stop index is
\* `k as isize - 1`: k - 1 for a k below 2^63; a negative index, counted
\* from the end of the shard, for a k above 2^63 (usize::MAX gives -2); for
\* k = 2^63 the subtraction overflows, and the call either panics in the
\* first pass of the loop with no command sent and no reply (overflow
\* checks), or reads every shard to its end with the stop index isize::MAX.
RECURSIVE ShardSlices(_, _, _, _, _, _, _)
ShardSlices(r, tenant_id, game_id, k, shard_count, down, shard) ==
    IF shard >= shard_count \/ top_k_panics(k, shard_count) THEN << >>
    ELSE zrevrange_withscores(r, lb_key(tenant_id, game_id, shard), 0, StopIndex(k),
                              shard \notin down)
         \o ShardSlices(r, tenant_id, game_id, k, shard_count, down, shard + 1)

\* k is a usize.  A k of 2^63 or more is written as a negative number (the
\* value of `k as isize`); no list is that long.
truncate(entries, k) ==
    IF k < 0 THEN entries ELSE SubSeq(entries, 1, Min(k, Len(entries)))

\* The list get_top_k returns (no list, written << >>, when it panics).
get_top_k(r, tenant_id, game_id, k, shard_count, down) ==
    truncate(SortDesc(ShardSlices(r, tenant_id, game_id, k, shard_count, down, 0)), k)

\* get_approx_rank, lines 77-78: the key the lookup reads.
RankKeyShardZero(tenant_id, game_id, player_id, shard_count) ==
    lb_key(tenant_id, game_id, 0)

RankKey(tenant_id, game_id, player_id, shard_count) ==
    lb_key(tenant_id, game_id, shard_index(player_id, shard_count))

\* A count that also takes the entries of equal score.
CountHigherOrEqual(entries, score) ==
    Cardinality({i \in DOMAIN entries : entries[i][2] >= score})

\* Lines 86-90 for one shard's entries: those with entry_score > score.
CountHigher(entries, score) ==
    Cardinality({i \in DOMAIN entries : entries[i][2] > score})

\* A count over the first shard read only.
HigherCountOneShard(r, tenant_id, game_id, score, shard_count, down, shard) ==
    CountHigher(zrevrange_withscores(r, lb_key(tenant_id, game_id, shard),
                                     0, -1, shard \notin down), score)

\* Lines 82-91: higher_count over shards shard..shard_count-1, each read in
\* full (0, -1).  down is the set of shards whose read fails.
RECURSIVE HigherCount(_, _, _, _, _, _, _)
HigherCount(r, tenant_id, game_id, score, shard_count, down, shard) ==
    IF shard >= shard_count THEN 0
    ELSE CountHigher(zrevrange_withscores(r, lb_key(tenant_id, game_id, shard),
                                          0, -1, shard \notin down), score)
         + HigherCount(r, tenant_id, game_id, score, shard_count, down, shard + 1)

\* A lookup that takes a failed ZSCORE for a score of 0.
get_approx_rank_default_score(r, tenant_id, game_id, player_id, shard_count, zok, down) ==
    LET score == IF zok
                 THEN zscore(r, RankKey(tenant_id, game_id, player_id, shard_count),
                             player_id, TRUE)
                 ELSE <<0>>
    IN  IF score = << >> THEN << >>
        ELSE <<HigherCount(r, tenant_id, game_id, score[1], shard_count, down, 0) + 1>>

\* get_approx_rank: << >> for None, <<rank>> for Some(rank).  zok tells
\* whether the ZSCORE is answered.
get_approx_rank(r, tenant_id, game_id, player_id, shard_count, zok, down) ==
    LET score == zscore(r, RankKey(tenant_id, game_id, player_id, shard_count),
                        player_id, zok)
    IN  IF score = << >> THEN << >>
        ELSE <<HigherCount(r, tenant_id, game_id, score[1], shard_count, down, 0) + 1>>

\* get_global_top_k, lines 104-108: the replies of the global shards, with
\* the stop index of line 106 computed as in get_top_k.
RECURSIVE GlobalSlices(_, _, _, _, _, _)
GlobalSlices(r, tenant_id, k, shard_count, down, shard) ==
    IF shard >= shard_count \/ top_k_panics(k, shard_count) THEN << >>
    ELSE zrevrange_withscores(r, global_key(tenant_id, shard), 0, StopIndex(k),
                              shard \notin down)
         \o GlobalSlices(r, tenant_id, k, shard_count, down, shard + 1)

\* A merge that forgets the final cut.
get_global_top_k_uncut(r, tenant_id, k, shard_count, down) ==
    SortDesc(GlobalSlices(r, tenant_id, k, shard_count, down, 0))

\* The list get_global_top_k returns (no list, written << >>, when it
\* panics: top_k_panics).
get_global_top_k(r, tenant_id, k, shard_count, down) ==
    truncate(SortDesc(GlobalSlices(r, tenant_id, k, shard_count, down, 0)), k)

(***************************************************************************)
(* update_score as a running call: zadd, then expire, each an await point. *)
(* A call record is [sub, tenant_id, game_id, player_id, score,            *)
(* shard_count, pc, wrote, old]: sub is the submission that spawned the    *)
(* call (0 for a direct call), wrote records whether the zadd was applied  *)
(* and old the score it replaced (<<s>>, or << >> for a new member).       *)
(* Calls in flight form a bag: equal calls are interchangeable.            *)
(***************************************************************************)
Call(sub, tenant_id, game_id, player_id, score, shard_count) ==
    [sub |-> sub, tenant_id |-> tenant_id, game_id |-> game_id,
     player_id |-> player_id, score |-> score, shard_count |-> shard_count,
     pc |-> "zadd", wrote |-> FALSE, old |-> << >>]

CallKey(c) == UpdateKey(c.tenant_id, c.game_id, c.player_id, c.shard_count)

Drop(f, id) == Restrict(f, DOMAIN f \ {id})

\* The call as it stands after its zadd.
AfterZadd(c, r, ok) ==
    [c EXCEPT !.pc = "expire", !.wrote = ok,
              !.old = IF ok THEN ZSCORE(r, key(CallKey(c)), c.player_id) ELSE << >>]

\* update_score, line 32: cache.zadd(&key, player_id, score).await
update_score_zadd(r, tenant_id, game_id, player_id, score, shard_count, ok) ==
    zadd(r, UpdateKey(tenant_id, game_id, player_id, shard_count), player_id, score, ok)

\* update_score, line 33: cache.expire(&key, 7200).await
update_score_expire(r, tenant_id, game_id, player_id, shard_count, ok) ==
    expire(r, UpdateKey(tenant_id, game_id, player_id, shard_count), TtlSecs, ok)

UpdateZadd(c) ==
    /\ BagIn(c, tasks)
    /\ c.pc = "zadd"
    /\ \E ok \in BOOLEAN :
          /\ redis' = update_score_zadd(redis, c.tenant_id, c.game_id, c.player_id,
                                        c.score, c.shard_count, ok)
          /\ tasks' = (tasks (-) SetToBag({c})) (+) SetToBag({AfterZadd(c, redis, ok)})
    /\ UNCHANGED <<db, rowlock, subs, rb>>
    /\ UNCHANGED aside

\* After the expire the call returns.
UpdateExpire(c) ==
    /\ BagIn(c, tasks)
    /\ c.pc = "expire"
    /\ \E ok \in BOOLEAN :
          redis' = update_score_expire(redis, c.tenant_id, c.game_id, c.player_id,
                                       c.shard_count, ok)
    /\ tasks' = tasks (-) SetToBag({c})
    /\ UNCHANGED <<db, rowlock, subs, rb>>
    /\ UNCHANGED aside

(***************************************************************************)
(* The durable store: game_progress rows.                                  *)
(***************************************************************************)
Row(tenant_id, game_id, player_id) == <<tenant_id, game_id, player_id>>

RowsOf(d, tenant_id, game_id) ==
    {row \in DOMAIN d : row[1] = tenant_id /\ row[2] = game_id}

\* SELECT player_id, high_score ... ORDER BY high_score DESC LIMIT 10000:
\* every sequence the query may return; rows of equal score come in any
\* order.
QueryRows(d, tenant_id, game_id) ==
    LET R == RowsOf(d, tenant_id, game_id)
        n == Cardinality(R)
        ordered == {f \in [1..n -> R] :
                       /\ \A i, j \in 1..n : i < j =>
                             /\ f[i] # f[j]
                             /\ d[f[i]].high_score >= d[f[j]].high_score}
    IN  {[i \in 1..Min(n, RebuildLimit) |-> <<f[i][3], d[f[i]].high_score>>] :
            f \in ordered}

(***************************************************************************)
(* rebuild_from_db as a running call.  rb is [pc |-> "idle"] or a record   *)
(* [pc, tenant_id, game_id, shard_count, rows, step, count, failed]: rows  *)
(* are the rows still to replay, step the await point of the update_score  *)
(* under way, count the value to return.  failed (a cache command of the   *)
(* call failed) is an observation about the run, not program state.        *)
(***************************************************************************)
NoRebuild == [pc |-> "idle"]

RebuildRunning == IF rb.pc = "idle" THEN 0 ELSE 1

\* The durable top k: scores in descending order, each with a row that
\* holds it, no row twice.  Rows of equal score may take each other's place.
RECURSIVE HighScoresDesc(_, _)
HighScoresDesc(d, R) ==
    IF R = {} THEN << >>
    ELSE LET top == CHOOSE row \in R : \A o \in R : d[row].high_score >= d[o].high_score
         IN  <<d[top].high_score>> \o HighScoresDesc(d, R \ {top})

IsDurableTopK(result, d, tenant_id, game_id, k) ==
    LET R  == RowsOf(d, tenant_id, game_id)
        sc == HighScoresDesc(d, R)
    IN  /\ [i \in DOMAIN result |-> result[i][2]] = SubSeq(sc, 1, Min(k, Len(sc)))
        /\ \A i \in DOMAIN result :
              /\ Row(tenant_id, game_id, result[i][1]) \in R
              /\ d[Row(tenant_id, game_id, result[i][1])].high_score = result[i][2]
        /\ \A i, j \in DOMAIN result : i # j => result[i][1] # result[j][1]

\* Lines 122-130: the query, `?` on its error, count = rows.len().
RebuildStart(tenant_id, game_id) ==
    /\ rb.pc = "idle"
    /\ BagCardinality(tasks) < MaxCalls
    /\ \E ok \in BOOLEAN :
          IF ok
          THEN \E rows \in QueryRows(db, tenant_id, game_id) :
                  rb' = [pc |-> IF rows = << >> THEN "done" ELSE "run",
                         tenant_id |-> tenant_id, game_id |-> game_id,
                         shard_count |-> ShardCount,
                         rows |-> rows, step |-> "zadd", count |-> Len(rows),
                         failed |-> FALSE]
          ELSE rb' = [pc |-> "error"]
    /\ UNCHANGED <<redis, db, rowlock, tasks, subs>>
    /\ UNCHANGED aside

\* Line 132, first await of update_score(cache, tenant_id, game_id, pid,
\* *score as f64, shard_count).
RebuildZadd ==
    /\ rb.pc = "run"
    /\ rb.step = "zadd"
    /\ \E ok \in BOOLEAN :
          /\ redis' = update_score_zadd(redis, rb.tenant_id, rb.game_id, Head(rb.rows)[1],
                                        AsF64(Head(rb.rows)[2]), rb.shard_count, ok)
          /\ rb' = [rb EXCEPT !.step = "expire", !.failed = @ \/ ~ok]
    /\ UNCHANGED <<db, rowlock, tasks, subs>>
    /\ UNCHANGED aside

\* Line 132, second await; after the last row, line 134: Ok(count).
RebuildExpire ==
    /\ rb.pc = "run"
    /\ rb.step = "expire"
    /\ \E ok \in BOOLEAN :
          /\ redis' = update_score_expire(redis, rb.tenant_id, rb.game_id,
                                          Head(rb.rows)[1], rb.shard_count, ok)
          /\ rb' = [rb EXCEPT !.step = "zadd", !.rows = Tail(@),
                              !.failed = @ \/ ~ok,
                              !.pc = IF Tail(rb.rows) = << >> THEN "done" ELSE "run"]
    /\ UNCHANGED <<db, rowlock, tasks, subs>>
    /\ UNCHANGED aside

\* The caller takes the result.
RebuildReturn ==
    /\ rb.pc \in {"done", "error"}
    /\ rb' = NoRebuild
    /\ UNCHANGED <<redis, db, rowlock, tasks, subs>>
    /\ UNCHANGED aside

(***************************************************************************)
(* Time.  Tick lets TickSecs seconds pass: TTLs run down, a key whose TTL  *)
(* has run out is removed, ages grow.  KeyExpires is the same removal      *)
(* without a clock: any key with a TTL may reach its end.                  *)
(***************************************************************************)
Tick ==
    /\ LET live == {k \in DOMAIN redis :
                        ~redis[k].volatile \/ redis[k].ttl > TickSecs}
       IN  redis' = [k \in live |->
                        [redis[k] EXCEPT
                            !.ttl = IF redis[k].volatile THEN @ - TickSecs ELSE @,
                            !.age = [m \in DOMAIN @ |-> Min(@[m] + TickSecs, AgeCap)]]]
    /\ redis' # redis
    /\ UNCHANGED <<db, rowlock, tasks, subs, rb>>
    /\ UNCHANGED aside

KeyExpires(k) ==
    /\ k \in DOMAIN redis
    /\ redis[k].volatile
    /\ redis' = Drop(redis, k)
    /\ UNCHANGED <<db, rowlock, tasks, subs, rb>>
    /\ UNCHANGED aside

(***************************************************************************)
(* Spec: the leaderboard service under direct calls.  Callers issue        *)
(* update_score for players that have a durable row (the handler           *)
(* dispatches it after the row is committed) and rebuild_from_db; calls    *)
(* interleave at their await points, any command may fail, keys expire.    *)
(***************************************************************************)
CallPlayers == {"a", "b", "e"}

CallScores == {100, 250}

CallUpdateScore(tenant_id, game_id, player_id, score) ==
    /\ BagCardinality(tasks) + RebuildRunning < MaxCalls
    /\ Row(tenant_id, game_id, player_id) \in DOMAIN db
    /\ tasks' = tasks (+) SetToBag({Call(0, tenant_id, game_id, player_id,
                                         AsF64(score), ShardCount)})
    /\ UNCHANGED <<redis, db, rowlock, subs, rb>>
    /\ UNCHANGED aside

Table(high) ==
    [row \in {Row("t1", "g1", p) : p \in DOMAIN high} |->
        [high_score |-> high[row[3]], stars |-> 1]]

Init ==
    /\ redis = << >>
    /\ db = Table([a |-> 250, b |-> 250, e |-> 100])
    /\ rowlock = << >>
    /\ tasks = EmptyBag
    /\ subs = << >>
    /\ rb = NoRebuild
    /\ TablesInit
    /\ award_key = TRUE
    /\ overflow_checks \in BOOLEAN

Next ==
    \/ \E t \in Tenants, g \in Games, p \in CallPlayers, s \in CallScores :
          CallUpdateScore(t, g, p, s)
    \/ \E c \in BagToSet(tasks) : UpdateZadd(c)
    \/ \E c \in BagToSet(tasks) : UpdateExpire(c)
    \/ \E t \in Tenants, g \in Games : RebuildStart(t, g)
    \/ RebuildZadd
    \/ RebuildExpire
    \/ RebuildReturn
    \/ \E k \in DOMAIN redis : KeyExpires(k)

Spec == Init /\ [][Next]_vars

(***************************************************************************)
(* What a leaderboard holds: the <<shard, player, score>> triples of the   *)
(* shard_count shard keys of (tenant, game).                               *)
(***************************************************************************)
Shards(shard_count) == 0..(shard_count - 1)

Cached(r, tenant_id, game_id, shard_count) ==
    UNION { LET K == key(lb_key(tenant_id, game_id, s))
            IN  IF K \in DOMAIN r
                THEN {<<s, m, r[K].zset[m]>> : m \in DOMAIN r[K].zset}
                ELSE {}
            : s \in Shards(shard_count) }

EntriesOf(r, tenant_id, game_id, player_id, shard_count) ==
    {e \in Cached(r, tenant_id, game_id, shard_count) : e[2] = player_id}

\* C1: every player has at most one entry in the union of the shard sets of
\* a (tenant, game) leaderboard, and that entry is in the shard
\* shard_index(player_id, shard_count).
C1_OneEntryInOwnShard ==
    \A t \in Tenants, g \in Games :
        LET E == Cached(redis, t, g, ShardCount)
        IN  /\ \A p \in Players : Cardinality({e \in E : e[2] = p}) <= 1
            /\ \A e \in E : e[1] = shard_index(e[2], ShardCount)

\* Two players share a shard, a third sits in another one, and all three
\* are cached.
C1_Witness ==
    /\ shard_index("b", ShardCount) = shard_index("e", ShardCount)
    /\ shard_index("a", ShardCount) # shard_index("b", ShardCount)
    /\ \A p \in {"a", "b", "e"} : EntriesOf(redis, "t1", "g1", p, ShardCount) # {}

\* C2: when the zadd of an update_score(t, g, p, s) call is applied, the
\* leaderboard holds exactly one entry for p afterwards and its score is s,
\* whatever score p had before (higher or lower).
C2_LastWriteWins ==
    [][\A c \in BagToSet(tasks) :
          (/\ c.pc = "zadd"
           /\ CopiesIn(c, tasks') < CopiesIn(c, tasks)
           /\ CopiesIn(AfterZadd(c, redis, TRUE), tasks')
                > CopiesIn(AfterZadd(c, redis, TRUE), tasks))
          => EntriesOf(redis', c.tenant_id, c.game_id, c.player_id, c.shard_count)
             = {<<shard_index(c.player_id, c.shard_count), c.player_id, c.score>>}]_vars

\* A call has just overwritten the score 250 with the lower score 100.
C2_Witness ==
    \E c \in BagToSet(tasks) :
        /\ c.pc = "expire" /\ c.wrote
        /\ c.old = <<250>> /\ c.score = 100
        /\ EntriesOf(redis, c.tenant_id, c.game_id, c.player_id, c.shard_count)
           = {<<shard_index(c.player_id, c.shard_count), c.player_id, 100>>}

(***************************************************************************)
(* SpecRebuild: one rebuild_from_db that runs alone (no other writer)      *)
(* while time passes, started on any table and any cache state the         *)
(* service can have left behind: every cached player has a durable row,    *)
(* sits in its own shard and has a score of at most its durable high       *)
(* score; the keys have no TTL, a TTL about to run out, or a full TTL.     *)
(***************************************************************************)
\* A value that is no score: the player has no entry.
Absent == MinScore - 1

RECURSIVE CacheOf(_, _)
CacheOf(cached, P) ==
    IF P = {} THEN << >>
    ELSE LET p == CHOOSE q \in P : TRUE
             r == CacheOf(cached, P \ {p})
         IN  IF cached[p] = Absent THEN r
             ELSE ZADD(r, key(UpdateKey("t1", "g1", p, ShardCount)), p, AsF64(cached[p]))

WithTtl(r, secs) ==
    [k \in DOMAIN r |->
        [r[k] EXCEPT !.volatile = secs > 0, !.ttl = secs]]

InitRebuild ==
    /\ \E high \in [CallPlayers -> CallScores] :
          /\ db = Table(high)
          /\ \E cached \in [CallPlayers -> {Absent} \cup CallScores],
                secs \in {0, TickSecs, TtlSecs} :
                /\ \A p \in CallPlayers : cached[p] <= high[p]
                /\ redis = WithTtl(CacheOf(cached, CallPlayers), secs)
    /\ rowlock = << >>
    /\ tasks = EmptyBag
    /\ subs = << >>
    /\ rb = NoRebuild
    /\ AsideInit

NextRebuild ==
    \/ \E t \in Tenants, g \in Games : RebuildStart(t, g)
    \/ RebuildZadd
    \/ RebuildExpire
    \/ Tick

SpecRebuild == InitRebuild /\ [][NextRebuild]_vars

\* The rebuild completes in this step.
RebuildCompletes == rb.pc # "done" /\ rb'.pc = "done"

\* get_top_k, asked right after the step, answers with the durable top k.
TopKIsDurableAfter ==
    \A k \in 0..MaxK :
        IsDurableTopK(get_top_k(redis', rb'.tenant_id, rb'.game_id, k,
                                rb'.shard_count, {}),
                      db', rb'.tenant_id, rb'.game_id, k)

\* C4: right after a rebuild_from_db that met no cache failure (and no
\* concurrent write) completes, get_top_k returns the durable top k for
\* every k, whatever the cache held before.
C4_RebuildRoundTrip ==
    [][(RebuildCompletes /\ ~rb'.failed) => TopKIsDurableAfter]_vars

(***************************************************************************)
(* SpecStale: update_score calls for two players of one shard while time   *)
(* passes.  A call with a score below the durable high score leaves a      *)
(* stale entry, as a cache-update task that completes late does.  The      *)
(* cache backend is healthy here: no command fails.  A call takes no time  *)
(* on the scale of the clock: time passes between calls.                   *)
(***************************************************************************)
StalePlayers == {"b", "e"}

InitStale ==
    /\ redis = << >>
    /\ db = Table([b |-> 250, e |-> 250])
    /\ rowlock = << >>
    /\ tasks = EmptyBag
    /\ subs = << >>
    /\ rb = NoRebuild
    /\ AsideInit

TickBetweenCalls == tasks = EmptyBag /\ Tick

\* No command has failed: every call past its zadd has written, and a key
\* is without TTL only until the call that created it sets one.
Healthy ==
    /\ \A c \in BagToSet(tasks) : c.pc = "expire" => c.wrote
    /\ \A k \in DOMAIN redis :
          redis[k].volatile
          \/ \E c \in BagToSet(tasks) : c.pc = "expire" /\ key(CallKey(c)) = k

ZaddApplied(c) == UpdateZadd(c) /\ Healthy'

ExpireApplied(c) == UpdateExpire(c) /\ Healthy'

NextStale ==
    \/ \E t \in Tenants, g \in Games, p \in StalePlayers, s \in CallScores :
          CallUpdateScore(t, g, p, s)
    \/ \E c \in BagToSet(tasks) : ZaddApplied(c)
    \/ \E c \in BagToSet(tasks) : ExpireApplied(c)
    \/ TickBetweenCalls

SpecStale == InitStale /\ [][NextStale]_vars

\* The cached entries that differ from the durable high score:
\* <<key, player, row>>.
StaleEntries ==
    {e \in {<<key(UpdateKey(row[1], row[2], row[3], ShardCount)), row[3], row>> :
                row \in DOMAIN db} :
        /\ e[1] \in DOMAIN redis
        /\ e[2] \in DOMAIN redis[e[1]].zset
        /\ redis[e[1]].zset[e[2]] # AsF64(db[e[3]].high_score)}

\* C5: a cached entry that differs from the durable high score has been in
\* the cache for at most 7200 seconds.
C5_StaleAtMostTtl ==
    \A e \in StaleEntries : redis[e[1]].age[e[2]] <= TtlSecs

(***************************************************************************)
(* models/game_progress.rs: stars.                                         *)
(***************************************************************************)
star_thresholds(game_id) ==
    CASE game_id = "PhysicsMasterBilliards" -> <<200, 600, 1500>>
      [] game_id = "STEMProjectVolley" -> <<300, 800, 1500>>
      [] game_id = "DroneDefense" -> <<200, 500, 1000>>
      [] game_id = "CampusDash" -> <<100, 300, 600>>
      [] game_id = "ChemistryLab" -> <<150, 400, 900>>
      [] game_id = "MathBlaster" -> <<200, 500, 1200>>
      [] game_id = "BiologyExplorer" -> <<100, 350, 800>>
      [] game_id = "CodeRunner" -> <<250, 600, 1400>>
      [] game_id = "GeoQuest" -> <<150, 450, 1000>>
      [] game_id = "RobotBuilder" -> <<200, 550, 1300>>
      [] game_id = "SpaceNavigator" -> <<300, 700, 1500>>
      [] game_id = "CircuitMaster" -> <<150, 400, 900>>
      [] game_id = "EcoSystem" -> <<100, 300, 700>>
      [] game_id = "DataDetective" -> <<200, 500, 1100>>
      [] game_id = "WeatherStation" -> <<150, 400, 850>>
      [] game_id = "LabSafety" -> <<100, 250, 600>>
      [] game_id = "BridgeBuilder" -> <<200, 500, 1200>>
      [] game_id = "StarMapper" -> <<150, 400, 900>>
      [] game_id = "MicroWorld" -> <<100, 350, 800>>
      [] game_id = "EnergyGrid" -> <<200, 500, 1100>>
      [] game_id = "FossilHunter" -> <<150, 400, 900>>
      [] game_id = "VolcanoLab" -> <<200, 500, 1000>>
      [] game_id = "OceanExplorer" -> <<100, 300, 700>>
      [] game_id = "GeneticLab" -> <<200, 600, 1300>>
      [] game_id = "RocketScience" -> <<250, 600, 1400>>
      [] OTHER -> <<100, 300, 600>>

\* A star count that asks for more than the threshold.
calculate_stars_strict(game_id, score) ==
    LET thresholds == star_thresholds(game_id)
    IN  IF score > thresholds[3] THEN 3
        ELSE IF score > thresholds[2] THEN 2
        ELSE IF score > thresholds[1] THEN 1
        ELSE 0

calculate_stars(game_id, score) ==
    LET thresholds == star_thresholds(game_id)
    IN  IF score >= thresholds[3] THEN 3
        ELSE IF score >= thresholds[2] THEN 2
        ELSE IF score >= thresholds[1] THEN 1
        ELSE 0

(***************************************************************************)
(* routes/scores.rs, submit_score, as a running request.  A request record *)
(* is [tenant_id, game_id, player_id, score, pc, prev_high, new_high,      *)
(* stars, is_new_high, pending, ...]: pc is the await point the handler    *)
(* stands at ("done": Ok response sent, "error": Err response sent),       *)
(* pending the game_progress row its open transaction has written          *)
(* (<<row>>, or << >>).  The transaction runs at READ COMMITTED: its       *)
(* SELECT sees the committed row and takes no lock; its upsert takes the   *)
(* row lock, which commit or rollback releases.  pending_player is the     *)
(* players row the transaction has written (<<row>>, or << >>); seen,      *)
(* todo, earned and newly_awarded are the locals of                        *)
(* achievements::evaluate.  The score_history table, which nothing here    *)
(* reads, is not kept: the statement on it is an await point that may      *)
(* fail.                                                                   *)
(* failedAt (the step whose error ended the request), committed, spawned   *)
(* (an update_score task was dispatched), high_before (the committed high  *)
(* score the upsert found) and high_at_commit (the high score the commit   *)
(* made durable) are observations about the run, not program state.        *)
(***************************************************************************)
\* What achievements::evaluate has read so far; nothing yet.
NoStats == [total_score |-> 0, games_played |-> 0, unique_games |-> 0,
            three_star_games |-> 0]

NewSub(tenant_id, game_id, player_id, score) ==
    [tenant_id |-> tenant_id, game_id |-> game_id, player_id |-> player_id,
     score |-> score, pc |-> "begin", prev_high |-> 0, new_high |-> 0,
     stars |-> 0, is_new_high |-> FALSE, pending |-> << >>,
     failedAt |-> "", committed |-> FALSE, spawned |-> FALSE,
     high_before |-> 0, high_at_commit |-> 0,
     pending_player |-> << >>, seen |-> NoStats, todo |-> << >>,
     earned |-> {}, newly_awarded |-> << >>]

SubRow(sub) == Row(sub.tenant_id, sub.game_id, sub.player_id)

\* The key of the players row of the request.
PlayerRow(sub) == <<sub.tenant_id, sub.player_id>>

Release(locks, id) == Restrict(locks, {row \in DOMAIN locks : locks[row] # id})

\* `?` on a failed statement: the transaction is dropped (rolled back) and
\* the handler returns the error.
Fail(id, step) ==
    /\ subs' = [subs EXCEPT ![id] = [@ EXCEPT !.pc = "error", !.failedAt = step,
                                             !.pending = << >>,
                                             !.pending_player = << >>]]
    /\ rowlock' = Release(rowlock, id)

At(id, pc) == id \in DOMAIN subs /\ subs[id].pc = pc

\* A handler without the score range check.
SubmitUnchecked(tenant_id, game_id, player_id, score) ==
    /\ Len(subs) < MaxSubs
    /\ subs' = Append(subs, NewSub(tenant_id, game_id, player_id, score))
    /\ UNCHANGED <<redis, db, rowlock, tasks, rb>>
    /\ UNCHANGED aside

\* Lines 21-29: the request arrives; the score range check.
Submit(tenant_id, game_id, player_id, score) ==
    /\ Len(subs) < MaxSubs
    /\ subs' = Append(subs,
                 IF score < MinScore \/ score > MaxScore
                 THEN [NewSub(tenant_id, game_id, player_id, score)
                         EXCEPT !.pc = "error", !.failedAt = "validate"]
                 ELSE NewSub(tenant_id, game_id, player_id, score))
    /\ UNCHANGED <<redis, db, rowlock, tasks, rb>>
    /\ UNCHANGED aside

\* Line 31: state.db.begin().await?
Begin(id) ==
    /\ At(id, "begin")
    /\ \E ok \in BOOLEAN :
          IF ok THEN subs' = [subs EXCEPT ![id].pc = "read"] /\ UNCHANGED rowlock
          ELSE Fail(id, "begin")
    /\ UNCHANGED <<redis, db, tasks, rb>>
    /\ UNCHANGED aside

\* Lines 34-43: SELECT high_score, stars; prev_high = prev.map(|p| p.0).unwrap_or(0)
ReadPrev(id) ==
    /\ At(id, "read")
    /\ \E ok \in BOOLEAN :
          IF ok
          THEN /\ subs' = [subs EXCEPT ![id] =
                             [@ EXCEPT !.pc = "upsert",
                                       !.prev_high = IF SubRow(subs[id]) \in DOMAIN db
                                                     THEN db[SubRow(subs[id])].high_score
                                                     ELSE 0]]
               /\ UNCHANGED rowlock
          ELSE Fail(id, "read")
    /\ UNCHANGED <<redis, db, tasks, rb>>
    /\ UNCHANGED aside

\* An upsert that overwrites the high score with the submitted score.
UpsertOverwrite(id) ==
    /\ At(id, "upsert")
    /\ SubRow(subs[id]) \notin DOMAIN rowlock
    /\ \E ok \in BOOLEAN :
          IF ok
          THEN LET row == SubRow(subs[id])
                   new == IF row \in DOMAIN db
                          THEN [db[row] EXCEPT !.high_score = subs[id].score]
                          ELSE [high_score |-> subs[id].score, stars |-> 0]
               IN  /\ subs' = [subs EXCEPT ![id] =
                                 [@ EXCEPT !.pc = "stars", !.pending = <<new>>,
                                           !.high_before = IF row \in DOMAIN db
                                                           THEN db[row].high_score
                                                           ELSE 0]]
                   /\ rowlock' = (row :> id) @@ rowlock
          ELSE Fail(id, "upsert")
    /\ UNCHANGED <<redis, db, tasks, rb>>
    /\ UNCHANGED aside

\* Lines 45-65: INSERT ... ON CONFLICT DO UPDATE SET high_score =
\* GREATEST(game_progress.high_score, EXCLUDED.high_score); waits for the row
\* lock.
Upsert(id) ==
    /\ At(id, "upsert")
    /\ SubRow(subs[id]) \notin DOMAIN rowlock
    /\ \E ok \in BOOLEAN :
          IF ok
          THEN LET row == SubRow(subs[id])
                   new == IF row \in DOMAIN db
                          THEN [db[row] EXCEPT
                                  !.high_score = Max(@, subs[id].score)]
                          ELSE [high_score |-> subs[id].score, stars |-> 0]
               IN  /\ subs' = [subs EXCEPT ![id] =
                                 [@ EXCEPT !.pc = "stars", !.pending = <<new>>,
                                           !.high_before = IF row \in DOMAIN db
                                                           THEN db[row].high_score
                                                           ELSE 0]]
                   /\ rowlock' = (row :> id) @@ rowlock
          ELSE Fail(id, "upsert")
    /\ UNCHANGED <<redis, db, tasks, rb>>
    /\ UNCHANGED aside

\* Lines 68-78: new_high = max(prev_high, body.score); stars; UPDATE ... SET
\* stars = GREATEST(stars, $1)
UpdateStars(id) ==
    /\ At(id, "stars")
    /\ \E ok \in BOOLEAN :
          LET new_high == Max(subs[id].prev_high, subs[id].score)
              stars    == calculate_stars(subs[id].game_id, new_high)
          IN  IF ok
              THEN /\ subs' = [subs EXCEPT ![id] =
                                 [@ EXCEPT !.pc = "totals", !.new_high = new_high,
                                           !.stars = stars,
                                           !.pending = <<[@[1] EXCEPT
                                                !.stars = Max(@, stars)]>>]]
                   /\ UNCHANGED rowlock
              ELSE Fail(id, "stars")
    /\ UNCHANGED <<redis, db, tasks, rb>>
    /\ UNCHANGED aside

\* Lines 81-93: UPDATE players SET total_score = total_score + $1,
\* games_played = games_played + 1 ... WHERE id = $3 AND tenant_id = $4.  The
\* statement waits for the lock of the players row and holds it to the end
\* of the transaction; without a players row it updates nothing.
UpdateTotals(id) ==
    /\ At(id, "totals")
    /\ PlayerRow(subs[id]) \notin DOMAIN rowlock
    /\ \E ok \in BOOLEAN :
          IF ok
          THEN LET prow == PlayerRow(subs[id])
               IN  IF prow \in DOMAIN players
                   THEN /\ subs' = [subs EXCEPT ![id] =
                              [@ EXCEPT !.pc = "history",
                                        !.pending_player =
                                           <<[total_score |-> players[prow].total_score
                                                                 + subs[id].score,
                                              games_played |-> players[prow].games_played
                                                                 + 1]>>]]
                        /\ rowlock' = (prow :> id) @@ rowlock
                   ELSE /\ subs' = [subs EXCEPT ![id].pc = "history"]
                        /\ UNCHANGED rowlock
          ELSE Fail(id, "totals")
    /\ UNCHANGED <<redis, db, tasks, rb>>
    /\ UNCHANGED aside

\* Lines 96-106: INSERT INTO score_history
InsertHistory(id) ==
    /\ At(id, "history")
    /\ \E ok \in BOOLEAN :
          IF ok THEN subs' = [subs EXCEPT ![id].pc = "commit"] /\ UNCHANGED rowlock
          ELSE Fail(id, "history")
    /\ UNCHANGED <<redis, db, tasks, rb>>
    /\ UNCHANGED aside

\* The request as it stands after its commit: lines 110-121.
Committed(sub) ==
    [sub EXCEPT !.pc = "evaluate", !.pending = << >>, !.pending_player = << >>,
                !.is_new_high = sub.score > sub.prev_high,
                !.committed = TRUE, !.spawned = TRUE,
                !.high_at_commit = sub.pending[1].high_score]

\* The players table after the commit of the request.
PlayersAfter(id) ==
    IF subs[id].pending_player = << >> THEN players
    ELSE [players EXCEPT ![PlayerRow(subs[id])] = subs[id].pending_player[1]]

SpawnedCall(id) ==
    Call(id, subs[id].tenant_id, subs[id].game_id, subs[id].player_id,
         AsF64(subs[id].new_high), ShardCount)

\* A handler that dispatches the cache update before it commits.
CommitAfterSpawn(id) ==
    /\ At(id, "commit")
    /\ \E ok \in BOOLEAN :
          /\ tasks' = tasks (+) SetToBag({SpawnedCall(id)})
          /\ IF ok
             THEN /\ db' = (SubRow(subs[id]) :> subs[id].pending[1]) @@ db
                  /\ players' = PlayersAfter(id)
                  /\ subs' = [subs EXCEPT ![id] = Committed(@)]
                  /\ rowlock' = Release(rowlock, id)
             ELSE /\ subs' = [subs EXCEPT ![id] =
                                [@ EXCEPT !.pc = "error", !.failedAt = "commit",
                                          !.pending = << >>, !.pending_player = << >>,
                                          !.spawned = TRUE]]
                  /\ rowlock' = Release(rowlock, id)
                  /\ UNCHANGED <<db, players>>
    /\ UNCHANGED <<redis, rb>>
    /\ UNCHANGED services

\* Lines 108-121: tx.commit().await?; is_new_high; tokio::spawn(update_score
\* (..., new_high as f64, shard_count)).
Commit(id) ==
    /\ At(id, "commit")
    /\ \E ok \in BOOLEAN :
          IF ok
          THEN /\ db' = (SubRow(subs[id]) :> subs[id].pending[1]) @@ db
               /\ players' = PlayersAfter(id)
               /\ subs' = [subs EXCEPT ![id] = Committed(@)]
               /\ rowlock' = Release(rowlock, id)
               /\ tasks' = tasks (+) SetToBag({SpawnedCall(id)})
          ELSE Fail(id, "commit") /\ UNCHANGED <<db, tasks, players>>
    /\ UNCHANGED <<redis, rb>>
    /\ UNCHANGED services

OwnTask(id) == {c \in BagToSet(tasks) : c.sub = id}

(***************************************************************************)
(* services/achievements.rs: evaluate, the last part of a submit_score     *)
(* request.  Every query is an await of its own on the pool, outside any   *)
(* transaction; a step is one query with the statements that follow it up  *)
(* to the next await.  The INSERT's ON CONFLICT DO NOTHING names no        *)
(* conflict target: with a unique key on (player_id, tenant_id,            *)
(* achievement_id) a row already there stays and the statement touches     *)
(* nothing; in a schema without such a key the statement adds a second     *)
(* row.  Either way it succeeds.                                           *)
(***************************************************************************)
\* The achievements table of the tenant: id and criteria_json.
achievements ==
    << [id |-> "first_game", type |-> "unique_games", threshold |-> 1],
       [id |-> "regular", type |-> "games_played", threshold |-> 2],
       [id |-> "perfect", type |-> "all_three_stars", threshold |-> 1],
       [id |-> "secret", type |-> "", threshold |-> 0] >>

AchievementIds == {achievements[i].id : i \in DOMAIN achievements}

EvaluatePcs == {"evaluate", "ev_unique", "ev_three", "ev_defs", "ev_earned", "ev_insert"}

\* Lines 11-17: SELECT total_score, games_played FROM players: <<row>>, or
\* << >> for a player without a players row in the tenant.
player_stats(pl, tenant_id, player_id) ==
    IF <<tenant_id, player_id>> \in DOMAIN pl
    THEN <<pl[<<tenant_id, player_id>>]>>
    ELSE << >>

\* Lines 25-31: SELECT COUNT(DISTINCT game_id) FROM game_progress
unique_games(tenant_id, player_id) ==
    Cardinality({row[2] : row \in {r \in DOMAIN db : r[1] = tenant_id /\ r[3] = player_id}})

\* Lines 33-39: SELECT COUNT(*) FROM game_progress WHERE ... AND stars = 3
three_star_games(tenant_id, player_id) ==
    Cardinality({r \in DOMAIN db : /\ r[1] = tenant_id /\ r[3] = player_id
                                   /\ db[r].stars = 3})

\* Lines 50-56: SELECT achievement_id FROM player_achievements
earned(tenant_id, player_id) ==
    {a \in AchievementIds : BagIn(<<tenant_id, player_id, a>>, player_achievements)}

\* Lines 74-80: let met = match criteria_type { ... }
met(def, seen) ==
    CASE def.type = "games_played" -> seen.games_played >= def.threshold
      [] def.type = "total_score" -> seen.total_score >= def.threshold
      [] def.type = "unique_games" -> seen.unique_games >= def.threshold
      [] def.type = "all_three_stars" -> seen.three_star_games >= def.threshold
      [] OTHER -> FALSE

\* Lines 83-91: INSERT INTO player_achievements ... ON CONFLICT DO NOTHING
InsertAchievement(table, row, unique) ==
    IF unique /\ BagIn(row, table) THEN table ELSE table (+) SetToBag({row})

\* `?` on a failed query: evaluate and the handler return the error.
EvaluateFails(id) ==
    subs' = [subs EXCEPT ![id] = [@ EXCEPT !.pc = "error", !.failedAt = "evaluate",
                                           !.seen = NoStats, !.todo = << >>,
                                           !.earned = {}]]

\* Lines 60-82: the turns of the loop that reach no await: definitions
\* already earned or not met are passed over.
RECURSIVE SkipToAward(_, _, _)
SkipToAward(todo, got, seen) ==
    IF todo = << >> THEN << >>
    ELSE IF Head(todo).id \in got \/ ~met(Head(todo), seen)
    THEN SkipToAward(Tail(todo), got, seen)
    ELSE todo

\* The request after the loop has gone on over todo: at the INSERT of the
\* next award, or, the loop over, at its Ok response (line 97 and lines
\* 127-133 of routes/scores.rs).
LoopOn(sub, todo) ==
    LET rest == SkipToAward(todo, sub.earned, sub.seen)
    IN  IF rest = << >>
        THEN [sub EXCEPT !.pc = "done", !.todo = << >>, !.seen = NoStats,
                         !.earned = {}]
        ELSE [sub EXCEPT !.pc = "ev_insert", !.todo = rest]

\* Lines 11-22: the players row; None => return Ok(vec![]).
EvaluatePlayer(id) ==
    /\ At(id, "evaluate")
    /\ \E ok \in BOOLEAN :
          IF ok
          THEN LET row == player_stats(players, subs[id].tenant_id, subs[id].player_id)
               IN  subs' = [subs EXCEPT ![id] =
                     IF row = << >> THEN [@ EXCEPT !.pc = "done"]
                     ELSE [@ EXCEPT !.pc = "ev_unique",
                                    !.seen.total_score = row[1].total_score,
                                    !.seen.games_played = row[1].games_played]]
          ELSE EvaluateFails(id)
    /\ UNCHANGED <<redis, db, rowlock, tasks, rb>>
    /\ UNCHANGED aside

\* Lines 25-31: unique_games.
EvaluateUnique(id) ==
    /\ At(id, "ev_unique")
    /\ \E ok \in BOOLEAN :
          IF ok
          THEN subs' = [subs EXCEPT ![id] =
                 [@ EXCEPT !.pc = "ev_three",
                           !.seen.unique_games =
                              unique_games(subs[id].tenant_id, subs[id].player_id)]]
          ELSE EvaluateFails(id)
    /\ UNCHANGED <<redis, db, rowlock, tasks, rb>>
    /\ UNCHANGED aside

\* Lines 33-39: three_star_games.
EvaluateThreeStar(id) ==
    /\ At(id, "ev_three")
    /\ \E ok \in BOOLEAN :
          IF ok
          THEN subs' = [subs EXCEPT ![id] =
                 [@ EXCEPT !.pc = "ev_defs",
                           !.seen.three_star_games =
                              three_star_games(subs[id].tenant_id, subs[id].player_id)]]
          ELSE EvaluateFails(id)
    /\ UNCHANGED <<redis, db, rowlock, tasks, rb>>
    /\ UNCHANGED aside

\* Lines 42-47: the definitions of the tenant.
EvaluateDefinitions(id) ==
    /\ At(id, "ev_defs")
    /\ \E ok \in BOOLEAN :
          IF ok
          THEN subs' = [subs EXCEPT ![id] = [@ EXCEPT !.pc = "ev_earned",
                                                     !.todo = achievements]]
          ELSE EvaluateFails(id)
    /\ UNCHANGED <<redis, db, rowlock, tasks, rb>>
    /\ UNCHANGED aside

\* Lines 50-82: the ids already earned; newly_awarded starts empty and the
\* loop runs to its first INSERT.
EvaluateEarned(id) ==
    /\ At(id, "ev_earned")
    /\ \E ok \in BOOLEAN :
          IF ok
          THEN subs' = [subs EXCEPT ![id] =
                 LoopOn([@ EXCEPT !.earned = earned(subs[id].tenant_id,
                                                   subs[id].player_id)],
                        subs[id].todo)]
          ELSE EvaluateFails(id)
    /\ UNCHANGED <<redis, db, rowlock, tasks, rb>>
    /\ UNCHANGED aside

\* Lines 83-95: the INSERT of one award, the push, and the loop to the next
\* INSERT or to the end.
EvaluateAward(id) ==
    /\ At(id, "ev_insert")
    /\ \E ok \in BOOLEAN :
          IF ok
          THEN LET def == Head(subs[id].todo)
               IN  /\ player_achievements' =
                         InsertAchievement(player_achievements,
                            <<subs[id].tenant_id, subs[id].player_id, def.id>>,
                            award_key)
                   /\ subs' = [subs EXCEPT ![id] =
                         LoopOn([@ EXCEPT !.newly_awarded = Append(@, def.id)],
                                Tail(subs[id].todo))]
          ELSE EvaluateFails(id) /\ UNCHANGED player_achievements
    /\ UNCHANGED <<redis, db, rowlock, tasks, rb>>
    /\ UNCHANGED <<rooms, player_rooms, windows, now, players, award_key,
                   overflow_checks>>

\* achievements::evaluate(&state.db, player_id, tenant_id).await?, query by
\* query.
EvaluateSteps(id) ==
    \/ EvaluatePlayer(id)
    \/ EvaluateUnique(id)
    \/ EvaluateThreeStar(id)
    \/ EvaluateDefinitions(id)
    \/ EvaluateEarned(id)
    \/ EvaluateAward(id)

\* A handler that joins its cache-update task before it evaluates.
EvaluateAfterTask(id) ==
    /\ At(id, "evaluate") => OwnTask(id) = {}
    /\ EvaluateSteps(id)

\* Lines 123-133: achievements::evaluate(...).await?; the Ok response.
Evaluate(id) == EvaluateSteps(id)

\* Lines 127-133: the body of the Ok response.
Response(sub) ==
    [success |-> TRUE, highScore |-> sub.new_high, stars |-> sub.stars,
     isNewHighScore |-> sub.is_new_high, newAchievements |-> sub.newly_awarded]

(***************************************************************************)
(* SpecSubmit: concurrent submit_score requests with their detached        *)
(* cache-update tasks, on an empty table and an empty cache.  Every        *)
(* statement on the durable store and every cache command may fail.        *)
(***************************************************************************)
SubPlayers == {"b", "e"}

SubScores == {-1, 50, 100, 1000000}

InitSubmit ==
    /\ redis = << >>
    /\ db = << >>
    /\ rowlock = << >>
    /\ tasks = EmptyBag
    /\ subs = << >>
    /\ rb = NoRebuild
    /\ AsideInit

NextSubmit ==
    \/ \E t \in Tenants, g \in Games, p \in SubPlayers, s \in SubScores :
          Submit(t, g, p, s)
    \/ \E id \in 1..MaxSubs : Begin(id)
    \/ \E id \in 1..MaxSubs : ReadPrev(id)
    \/ \E id \in 1..MaxSubs : Upsert(id)
    \/ \E id \in 1..MaxSubs : UpdateStars(id)
    \/ \E id \in 1..MaxSubs : UpdateTotals(id)
    \/ \E id \in 1..MaxSubs : InsertHistory(id)
    \/ \E id \in 1..MaxSubs : Commit(id)
    \/ \E id \in 1..MaxSubs : Evaluate(id)
    \/ \E c \in BagToSet(tasks) : UpdateZadd(c)
    \/ \E c \in BagToSet(tasks) : UpdateExpire(c)

SpecSubmit == InitSubmit /\ [][NextSubmit]_vars

\* The runtime polls a handler whose await has returned: a request that
\* stands at the achievement evaluation gets its answer.  Nothing is assumed
\* about the detached tasks.
FairSubmit == SpecSubmit /\ \A id \in 1..MaxSubs : WF_vars(Evaluate(id))

DurableSteps == {"begin", "read", "upsert", "stars", "totals", "history", "commit"}

\* C6: for every committed submission, the high score it returns as
\* highScore and passes to update_score is the durable high_score as it
\* stood right after its commit.
C6_ReturnsDurableHigh ==
    /\ \A id \in DOMAIN subs :
          subs[id].committed => subs[id].new_high = subs[id].high_at_commit
    /\ \A c \in BagToSet(tasks) :
          c.sub \in DOMAIN subs => c.score = AsF64(subs[c.sub].high_at_commit)

\* C7: a committed submission leaves the durable high score at
\* max(previous high score, submitted score), never lower than before; a
\* submission of 0 or of a score not above the existing high score is not
\* turned away, leaves the durable high score unchanged and reports
\* isNewHighScore = false.
C7_DurableMaxAndFlag ==
    \A id \in DOMAIN subs :
        /\ subs[id].committed =>
              /\ subs[id].high_at_commit = Max(subs[id].high_before, subs[id].score)
              /\ subs[id].high_at_commit >= subs[id].high_before
        /\ (subs[id].score \in MinScore..MaxScore) => subs[id].failedAt # "validate"
        /\ (subs[id].committed /\ subs[id].score <= subs[id].high_before) =>
              /\ subs[id].high_at_commit = subs[id].high_before
              /\ subs[id].pc = "done" => Response(subs[id]).isNewHighScore = FALSE

\* C8: an update_score task exists only for a submission whose transaction
\* has committed, and a submission that failed at a durable-store step has
\* returned an error and never had a task dispatched.
C8_DispatchOnlyAfterCommit ==
    /\ \A c \in BagToSet(tasks) :
          c.sub \in DOMAIN subs /\ subs[c.sub].committed
    /\ \A id \in DOMAIN subs :
          /\ subs[id].spawned => subs[id].committed
          /\ subs[id].failedAt \in DurableSteps =>
                subs[id].pc = "error" /\ ~subs[id].spawned /\ OwnTask(id) = {}

\* One submission failed at its commit and has no task; another committed
\* and its task is in flight.
C8_Witness ==
    /\ \E id \in DOMAIN subs :
          subs[id].failedAt = "commit" /\ subs[id].pc = "error" /\ OwnTask(id) = {}
    /\ \E id \in DOMAIN subs : subs[id].committed /\ OwnTask(id) # {}

\* C9: a handler that has dispatched its cache update answers whatever the
\* task does: with its task still in flight it goes on from the achievement
\* evaluation to its response, also in the runs in which the task never
\* takes another step.
C9_NeverWaitsForCacheUpdate ==
    \A id \in 1..MaxSubs :
        (At(id, "evaluate") /\ OwnTask(id) # {})
            ~> (id \in DOMAIN subs /\ subs[id].pc \in {"done", "error"})

\* The handler has sent its Ok response while its task has not yet issued
\* its first cache command.
C9_Witness ==
    \E id \in DOMAIN subs :
        /\ subs[id].pc = "done"
        /\ \E c \in OwnTask(id) : c.pc = "zadd"

\* C10: a submission whose transaction has committed does not end in an
\* error response.
C10_CommittedReturnsSuccess ==
    \A id \in DOMAIN subs : subs[id].committed => subs[id].pc # "error"


(***************************************************************************)
(* SpecLost: recovery after a lost cache write.  The initial state is the  *)
(* one two committed submissions leave behind (e: 100, then b: 250) when   *)
(* the ZADD of b's cache-update task failed: both rows are durable, the    *)
(* shard-2 key holds e alone and its TTL is running.  From there player b  *)
(* submits again, 100 and then 300, one submission at a time, and          *)
(* rebuild_from_db is called; any command may fail, time passes.           *)
(***************************************************************************)
LostPlayer == "b"

LostScores == <<100, 300>>

\* A submission of the player is in flight: its handler has not answered,
\* or its cache-update task has not finished.
InFlight(player_id) ==
    \E id \in DOMAIN subs :
        /\ subs[id].player_id = player_id
        /\ subs[id].pc \notin {"done", "error"} \/ OwnTask(id) # {}

SubmitAlone(tenant_id, game_id, player_id, score) ==
    /\ ~InFlight(player_id)
    /\ Submit(tenant_id, game_id, player_id, score)

InitLost ==
    /\ db = Table([b |-> 250, e |-> 100])
    /\ redis = WithTtl(CacheOf([b |-> Absent, e |-> 100], {"b", "e"}), TickSecs)
    /\ rowlock = << >>
    /\ tasks = EmptyBag
    /\ subs = << >>
    /\ rb = NoRebuild
    /\ AsideInit

NextLost ==
    \/ \E t \in Tenants, g \in Games :
          /\ Len(subs) < Len(LostScores)
          /\ SubmitAlone(t, g, LostPlayer, LostScores[Len(subs) + 1])
    \/ \E id \in 1..MaxSubs : Begin(id)
    \/ \E id \in 1..MaxSubs : ReadPrev(id)
    \/ \E id \in 1..MaxSubs : Upsert(id)
    \/ \E id \in 1..MaxSubs : UpdateStars(id)
    \/ \E id \in 1..MaxSubs : UpdateTotals(id)
    \/ \E id \in 1..MaxSubs : InsertHistory(id)
    \/ \E id \in 1..MaxSubs : Commit(id)
    \/ \E id \in 1..MaxSubs : Evaluate(id)
    \/ \E c \in BagToSet(tasks) : UpdateZadd(c)
    \/ \E c \in BagToSet(tasks) : UpdateExpire(c)
    \/ \E t \in Tenants, g \in Games : RebuildStart(t, g)
    \/ RebuildZadd
    \/ RebuildExpire
    \/ RebuildReturn
    \/ Tick

SpecLost == InitLost /\ [][NextLost]_vars

\* The cached score of the player is the durable high score.
CachedIsDurable(r, d, tenant_id, game_id, player_id) ==
    /\ Row(tenant_id, game_id, player_id) \in DOMAIN d
    /\ ZSCORE(r, key(UpdateKey(tenant_id, game_id, player_id, ShardCount)), player_id)
         = <<d[Row(tenant_id, game_id, player_id)].high_score>>

\* This step is the applied ZADD of a cache-update task of submit_score.
SubmitWriteApplied(c) ==
    /\ c.sub > 0
    /\ UpdateZadd(c)
    /\ CopiesIn(AfterZadd(c, redis, TRUE), tasks')
         > CopiesIn(AfterZadd(c, redis, TRUE), tasks)
    /\ redis' = update_score_zadd(redis, c.tenant_id, c.game_id, c.player_id,
                                  c.score, c.shard_count, TRUE)

\* C11: the write of player b was lost.  Every later applied cache write of
\* a submit_score task for b (b's submissions come one at a time) leaves b's
\* cached score equal to b's durable high score, and so does every rebuild
\* that completes with no failed command: right after it b is cached with
\* the durable high score (b is among the 10000 highest rows).
C11_LostWriteRestored ==
    [][/\ \A c \in BagToSet(tasks) :
             c.player_id = LostPlayer /\ SubmitWriteApplied(c)
                => CachedIsDurable(redis', db', c.tenant_id, c.game_id, LostPlayer)
       /\ RebuildCompletes /\ ~rb'.failed
             => CachedIsDurable(redis', db', rb'.tenant_id, rb'.game_id, LostPlayer)]_vars

(***************************************************************************)
(* update_global_score as a running call: zadd, then expire, on the        *)
(* global key of the player's shard.  A call record is [tenant_id,         *)
(* player_id, score, shard_count, pc, wrote].                              *)
(***************************************************************************)
GlobalCall(tenant_id, player_id, total_score, shard_count) ==
    [tenant_id |-> tenant_id, player_id |-> player_id, score |-> total_score,
     shard_count |-> shard_count, pc |-> "global_zadd", wrote |-> FALSE]

\* update_global_score, lines 43-44: the key the call writes.
GlobalUpdateKey(tenant_id, player_id, shard_count) ==
    global_key(tenant_id, shard_index(player_id, shard_count))

\* Line 45: cache.zadd(&key, player_id, total_score).await
update_global_score_zadd(r, tenant_id, player_id, total_score, shard_count, ok) ==
    zadd(r, GlobalUpdateKey(tenant_id, player_id, shard_count), player_id,
         total_score, ok)

\* Line 46: cache.expire(&key, 7200).await
update_global_score_expire(r, tenant_id, player_id, shard_count, ok) ==
    expire(r, GlobalUpdateKey(tenant_id, player_id, shard_count), TtlSecs, ok)

GlobalZadd(c) ==
    /\ BagIn(c, tasks)
    /\ c.pc = "global_zadd"
    /\ \E ok \in BOOLEAN :
          /\ redis' = update_global_score_zadd(redis, c.tenant_id, c.player_id,
                                               c.score, c.shard_count, ok)
          /\ tasks' = (tasks (-) SetToBag({c}))
                        (+) SetToBag({[c EXCEPT !.pc = "global_expire", !.wrote = ok]})
    /\ UNCHANGED <<db, rowlock, subs, rb>>
    /\ UNCHANGED aside

\* After the expire the call returns.
GlobalExpire(c) ==
    /\ BagIn(c, tasks)
    /\ c.pc = "global_expire"
    /\ \E ok \in BOOLEAN :
          redis' = update_global_score_expire(redis, c.tenant_id, c.player_id,
                                              c.shard_count, ok)
    /\ tasks' = tasks (-) SetToBag({c})
    /\ UNCHANGED <<db, rowlock, subs, rb>>
    /\ UNCHANGED aside

(***************************************************************************)
(* SpecGlobal: direct calls of update_score and update_global_score, one   *)
(* after the other; any command may fail, keys expire.                     *)
(***************************************************************************)
GlobalPlayers == {"a", "b"}

GlobalScores == {300, 600}

CallUpdateGlobalScore(tenant_id, player_id, total_score) ==
    /\ BagCardinality(tasks) < MaxCalls
    /\ tasks' = tasks (+) SetToBag({GlobalCall(tenant_id, player_id,
                                               AsF64(total_score), ShardCount)})
    /\ UNCHANGED <<redis, db, rowlock, subs, rb>>
    /\ UNCHANGED aside

NextGlobal ==
    \/ \E t \in Tenants, g \in Games, p \in CallPlayers, s \in CallScores :
          tasks = EmptyBag /\ CallUpdateScore(t, g, p, s)
    \/ \E c \in BagToSet(tasks) : UpdateZadd(c)
    \/ \E c \in BagToSet(tasks) : UpdateExpire(c)
    \/ \E t \in Tenants, p \in GlobalPlayers, s \in GlobalScores :
          tasks = EmptyBag /\ CallUpdateGlobalScore(t, p, s)
    \/ \E c \in BagToSet(tasks) : GlobalZadd(c)
    \/ \E c \in BagToSet(tasks) : GlobalExpire(c)
    \/ \E k \in DOMAIN redis : KeyExpires(k)

SpecGlobal == Init /\ [][NextGlobal]_vars

\* Every shard: the reads of all of them fail when the backend is down.
AllShards(shard_count) == 0..(shard_count - 1)

\* With every command failing the three reads give their empty result.
ReadsEmptyWhenDown ==
    \A t \in Tenants :
        /\ \A k \in 0..MaxK :
              get_global_top_k(redis, t, k, ShardCount, AllShards(ShardCount)) = << >>
        /\ \A g \in Games :
              /\ \A k \in 0..MaxK :
                    get_top_k(redis, t, g, k, ShardCount, AllShards(ShardCount)) = << >>
              /\ \A p \in Players :
                    get_approx_rank(redis, t, g, p, ShardCount, FALSE,
                                    AllShards(ShardCount)) = << >>

\* A step of a write call whose command failed: the cache stays as it was
\* and the call goes on to its next command, or returns after the last.
FailedWriteGoesOn ==
    \A c \in BagToSet(tasks) :
        /\ c.pc = "zadd" /\ UpdateZadd(c)
             /\ CopiesIn(AfterZadd(c, redis, FALSE), tasks')
                  > CopiesIn(AfterZadd(c, redis, FALSE), tasks)
              => redis' = redis /\ BagCardinality(tasks') = BagCardinality(tasks)
        /\ c.pc = "global_zadd" /\ GlobalZadd(c)
             /\ CopiesIn([c EXCEPT !.pc = "global_expire"], tasks')
                  > CopiesIn([c EXCEPT !.pc = "global_expire"], tasks)
              => redis' = redis /\ BagCardinality(tasks') = BagCardinality(tasks)
        /\ c.pc = "expire" /\ UpdateExpire(c) /\ redis' = redis
              => tasks' = tasks (-) SetToBag({c})
        /\ c.pc = "global_expire" /\ GlobalExpire(c) /\ redis' = redis
              => tasks' = tasks (-) SetToBag({c})

\* C12: with the cache backend failing on every call, get_top_k and
\* get_global_top_k return the empty list and get_approx_rank returns None,
\* whatever the cache holds; a failed command of update_score or
\* update_global_score changes nothing and the call runs on to its return.
C12_OutageGivesEmptyResults ==
    []ReadsEmptyWhenDown /\ [][FailedWriteGoesOn]_vars

\* Both leaderboards hold entries that the reads return while the backend
\* answers, and a call whose ZADD failed is on its way to its return.
C12_Witness ==
    /\ get_top_k(redis, "t1", "g1", MaxK, ShardCount, {}) # << >>
    /\ get_global_top_k(redis, "t1", MaxK, ShardCount, {}) # << >>
    /\ get_approx_rank(redis, "t1", "g1", "b", ShardCount, TRUE, {}) # << >>
    /\ \E c \in BagToSet(tasks) : c.pc \in {"expire", "global_expire"} /\ ~c.wrote

\* C13: no operation of the leaderboard service ends in an error, whatever
\* backend fails: in particular rebuild_from_db never stands at an Err
\* result.  (The other operations have no error result at all: the calls
\* of update_score and update_global_score run on after a failed command
\* and the reads give their empty result.)
C13_NoHardError == rb.pc # "error"

(***************************************************************************)
(* routes/leaderboards.rs: the two read handlers.  A response is a record  *)
(* with status "ok" or "error"; status "panic" stands for a handler that   *)
(* panicked and sent no response of its own.  The durable store answers a  *)
(* statement when its flag is TRUE.                                        *)
(***************************************************************************)
DefaultLimit == 50

LimitCap == 100

\* Line 27: q.limit.unwrap_or(50).min(100) as usize.  q_limit is << >> for
\* a request without the parameter, <<n>> with it.  The cast of a negative
\* n gives 2^64 + n, which is written n (see StopIndex); i64::MIN, which
\* gives 2^63, is written IsizeMin.
LimitOf(q_limit) ==
    Min(IF q_limit = << >> THEN DefaultLimit ELSE q_limit[1], LimitCap)

\* Lines 54-56: FROM game_progress gp JOIN players p ON p.id = gp.player_id
\* AND p.tenant_id = gp.tenant_id: the rows of the game whose player has a
\* players row in the tenant.
JoinedRows(d, pl, tenant_id, game_id) ==
    {row \in RowsOf(d, tenant_id, game_id) : <<row[1], row[3]>> \in DOMAIN pl}

\* Lines 51-64: every sequence of <<player, high_score, rank>> the fallback
\* query may return for a limit >= 0: rows in descending score order (rows
\* of equal score in any order), RANK() counts the rows that score higher.
DbLeaderboard(d, pl, tenant_id, game_id, limit) ==
    LET R == JoinedRows(d, pl, tenant_id, game_id)
        n == Cardinality(R)
        Rank(row) == 1 + Cardinality({o \in R : d[o].high_score > d[row].high_score})
        ordered == {f \in [1..n -> R] :
                       /\ \A i, j \in 1..n : i < j =>
                             /\ f[i] # f[j]
                             /\ d[f[i]].high_score >= d[f[j]].high_score}
    IN  {[i \in 1..Min(n, limit) |-> <<f[i][3], d[f[i]].high_score, Rank(f[i])>>] :
            f \in ordered}

\* Lines 40-46: rank i + 1 by position, score as i64.
CacheEntries(entries) ==
    [i \in DOMAIN entries |-> <<entries[i][1], entries[i][2], i>>]

\* get_game_leaderboard: the set of responses the request may get.  down is
\* the set of shards whose cache read fails, dbok tells whether the durable
\* store answers.  LIMIT with a negative number is an error of the store.
\* A panic of get_top_k (line 30) unwinds the handler.
get_game_leaderboard(r, d, pl, tenant_id, game_id, q_limit, shard_count, down, dbok) ==
    LET limit   == LimitOf(q_limit)
        entries == get_top_k(r, tenant_id, game_id, limit, shard_count, down)
    IN  IF top_k_panics(limit, shard_count)
        THEN {[status |-> "panic"]}
        ELSE IF entries # << >>
        THEN {[status |-> "ok", source |-> "cache", entries |-> CacheEntries(entries)]}
        ELSE IF ~dbok \/ limit < 0
        THEN {[status |-> "error"]}
        ELSE {[status |-> "ok", source |-> "db", entries |-> rows] :
                 rows \in DbLeaderboard(d, pl, tenant_id, game_id, limit)}

\* Lines 110-117: COUNT(*) + 1 over the rows with high_score > s.
DbRank(d, tenant_id, game_id, s) ==
    Cardinality({row \in RowsOf(d, tenant_id, game_id) : d[row].high_score > s}) + 1

\* get_my_rank.  rank is <<n>>, or << >> for null.  dbok1 and dbok2 tell
\* whether the durable store answers the first and the second query.
get_my_rank(r, d, tenant_id, game_id, player_id, shard_count, zok, down, dbok1, dbok2) ==
    LET rank == get_approx_rank(r, tenant_id, game_id, player_id, shard_count, zok, down)
        row  == Row(tenant_id, game_id, player_id)
    IN  IF rank # << >>
        THEN [status |-> "ok", rank |-> rank, source |-> "cache"]
        ELSE IF ~dbok1 THEN [status |-> "error"]
        ELSE IF row \notin DOMAIN d THEN [status |-> "ok", rank |-> << >>, score |-> 0]
        ELSE IF ~dbok2 THEN [status |-> "error"]
        ELSE [status |-> "ok",
              rank |-> <<DbRank(d, tenant_id, game_id, d[row].high_score)>>,
              score |-> d[row].high_score]

\* The limit parameter of the requests: absent, negative (i64::MIN and
\* -1), zero, small, and above the cap.
QueryLimits == {<< >>, <<IsizeMin>>, <<-1>>, <<0>>, <<1>>, <<2>>, <<LimitCap + 1>>}

\* The response lists the durable rows: limit of them at most, each with the
\* high score of its row.
ServesDurableRows(resp, d, tenant_id, game_id, limit) ==
    /\ resp.status = "ok"
    /\ resp.source = "db"
    /\ Len(resp.entries) = Min(Cardinality(RowsOf(d, tenant_id, game_id)), limit)
    /\ \A i \in DOMAIN resp.entries :
          /\ Row(tenant_id, game_id, resp.entries[i][1]) \in DOMAIN d
          /\ d[Row(tenant_id, game_id, resp.entries[i][1])].high_score
                = resp.entries[i][2]

\* C14: with the durable store answering, whenever get_top_k returns the
\* empty list (cold cache, or every shard read failing) get_game_leaderboard
\* answers Ok with the rows of the durable store, and whenever
\* get_approx_rank returns None get_my_rank answers Ok with the rank counted
\* in the durable store (null for a player without a row): a cache outage
\* alone never gives an error response.
C14_FallbackToDurableStore ==
    \A t \in Tenants, g \in Games :
        /\ \A q \in QueryLimits, down \in {{}, AllShards(ShardCount)} :
              get_top_k(redis, t, g, LimitOf(q), ShardCount, down) = << >>
                 => \A resp \in get_game_leaderboard(redis, db, players, t, g, q,
                                                     ShardCount, down, TRUE) :
                        ServesDurableRows(resp, db, t, g, LimitOf(q))
        /\ \A p \in Players, zok \in BOOLEAN, down \in {{}, AllShards(ShardCount)} :
              get_approx_rank(redis, t, g, p, ShardCount, zok, down) = << >>
                 => LET resp == get_my_rank(redis, db, t, g, p, ShardCount, zok,
                                            down, TRUE, TRUE)
                    IN  /\ resp.status = "ok"
                        /\ resp.rank = IF Row(t, g, p) \in DOMAIN db
                                       THEN <<DbRank(db, t, g, db[Row(t, g, p)].high_score)>>
                                       ELSE << >>

\* No update_score is under way, directly or inside a rebuild.
NoWriteInFlight == tasks = EmptyBag /\ rb.pc # "run"

\* The player's entries in its own shard.
OwnEntries(r, tenant_id, game_id, player_id, shard_count) ==
    {x \in Cached(r, tenant_id, game_id, shard_count) :
        x[1] = shard_index(player_id, shard_count) /\ x[2] = player_id}

\* 1 + the number of entries, over all shards, that score more than score.
ExactRank(r, tenant_id, game_id, score, shard_count) ==
    1 + Cardinality({x \in Cached(r, tenant_id, game_id, shard_count) : x[3] > score})

\* C15: with no write in flight get_approx_rank returns None for a player
\* without an entry in its own shard, and otherwise 1 + the number of
\* entries over all shards whose score is strictly greater than the
\* player's cached score (players of equal score get equal ranks).
C15_RankIsExact ==
    NoWriteInFlight =>
        \A t \in Tenants, g \in Games, p \in Players :
            LET own  == OwnEntries(redis, t, g, p, ShardCount)
                rank == get_approx_rank(redis, t, g, p, ShardCount, TRUE, {})
            IN  IF own = {} THEN rank = << >>
                ELSE \A x \in own : rank = <<ExactRank(redis, t, g, x[3], ShardCount)>>

\* a and b are cached with 250 and share rank 1, e with 100 has rank 3, and
\* c, never written, has none.
C15_Witness ==
    /\ NoWriteInFlight
    /\ Cached(redis, "t1", "g1", ShardCount)
         = {<<3, "a", 250>>, <<2, "b", 250>>, <<2, "e", 100>>}
    /\ get_approx_rank(redis, "t1", "g1", "a", ShardCount, TRUE, {}) = <<1>>
    /\ get_approx_rank(redis, "t1", "g1", "b", ShardCount, TRUE, {}) = <<1>>
    /\ get_approx_rank(redis, "t1", "g1", "e", ShardCount, TRUE, {}) = <<3>>
    /\ get_approx_rank(redis, "t1", "g1", "c", ShardCount, TRUE, {}) = << >>

\* C16: with no write in flight, of two players cached in the same
\* leaderboard the one with the strictly greater cached score gets the
\* strictly smaller rank from get_approx_rank.
C16_RankIsMonotonic ==
    NoWriteInFlight =>
        \A t \in Tenants, g \in Games :
            \A x, y \in Cached(redis, t, g, ShardCount) :
                x[3] > y[3] =>
                    LET r1 == get_approx_rank(redis, t, g, x[2], ShardCount, TRUE, {})
                        r2 == get_approx_rank(redis, t, g, y[2], ShardCount, TRUE, {})
                    IN  r1 # << >> /\ r2 # << >> /\ r1[1] < r2[1]

\* b (shard 2) is cached with 250 and a (shard 3) with 100: ranks 1 and 2.
C16_Witness ==
    /\ NoWriteInFlight
    /\ Cached(redis, "t1", "g1", ShardCount) = {<<2, "b", 250>>, <<3, "a", 100>>}
    /\ get_approx_rank(redis, "t1", "g1", "b", ShardCount, TRUE, {}) = <<1>>
    /\ get_approx_rank(redis, "t1", "g1", "a", ShardCount, TRUE, {}) = <<2>>

(***************************************************************************)
(* The k of get_top_k.  The one caller is get_game_leaderboard, with       *)
(* k = q.limit.unwrap_or(50).min(100) as usize: any k up to the cap, and   *)
(* for a negative limit a k of 2^63 or more, written as the negative       *)
(* number k - 2^64.                                                        *)
(***************************************************************************)
\* The k of a request with ?limit=-1: usize::MAX.
WrappedK == LimitOf(<<-1>>)

\* The k's the properties of get_top_k are checked for.
TopKs == 0..MaxK \cup {WrappedK}

\* n < k for a count n of entries and a usize k: a k of 2^63 or more
\* exceeds every count.
FewerThan(n, k) == k < 0 \/ n < k

\* e belongs among the k highest scores of E whichever way ties are broken:
\* fewer than k other entries score as much.
MustBeInTopK(E, e, k) ==
    FewerThan(Cardinality({o \in E : o # e /\ o[3] >= e[3]}), k)

Listed(result) == {<<result[i][1], result[i][2]>> : i \in DOMAIN result}

\* An entry that belongs among the k highest scores of E is not in the
\* result.
Misses(E, result, k) ==
    \E e \in E : MustBeInTopK(E, e, k) /\ <<e[2], e[3]>> \notin Listed(result)

InTopK(r, tenant_id, game_id, player_id, score, k) ==
    LET top == get_top_k(r, tenant_id, game_id, k, ShardCount, {})
    IN  \E i \in DOMAIN top : top[i] = <<player_id, score>>

\* The entries of the leaderboard that score more than score: in the shard
\* of the player, and in all shards.
HigherInShard(r, tenant_id, game_id, player_id, score) ==
    {x \in Cached(r, tenant_id, game_id, ShardCount) :
        x[1] = shard_index(player_id, ShardCount) /\ x[3] > score}

HigherOverall(r, tenant_id, game_id, score) ==
    {x \in Cached(r, tenant_id, game_id, ShardCount) : x[3] > score}

\* The reads serve the pair as the claim says: the rank is counted from
\* score, and get_top_k(k) lists the pair when fewer than k entries of the
\* player's shard and fewer than k entries overall score higher.
ServedIfFewHigher(r, tenant_id, game_id, player_id, score) ==
    /\ get_approx_rank(r, tenant_id, game_id, player_id, ShardCount, TRUE, {})
         = <<ExactRank(r, tenant_id, game_id, score, ShardCount)>>
    /\ \A k \in TopKs :
          /\ FewerThan(Cardinality(HigherInShard(r, tenant_id, game_id, player_id, score)), k)
          /\ FewerThan(Cardinality(HigherOverall(r, tenant_id, game_id, score)), k)
          => InTopK(r, tenant_id, game_id, player_id, score, k)

\* This step is the applied ZADD of an update_score call.
WriteApplied(c) ==
    /\ c.pc = "zadd"
    /\ UpdateZadd(c)
    /\ CopiesIn(AfterZadd(c, redis, TRUE), tasks')
         > CopiesIn(AfterZadd(c, redis, TRUE), tasks)

\* C17: right after the ZADD of update_score(t, g, p, s) is applied, and in
\* every later state in which p's entry still stands with score s (the key
\* has not expired, no other write for p), get_approx_rank returns the rank
\* counted from s and get_top_k(k) contains (p, s) whenever fewer than k
\* entries of p's shard and fewer than k entries of the whole leaderboard
\* score higher than s.
C17_WrittenScoreIsServed ==
    /\ [](\A t \in Tenants, g \in Games :
             \A x \in Cached(redis, t, g, ShardCount) :
                 ServedIfFewHigher(redis, t, g, x[2], x[3]))
    /\ [][\A c \in BagToSet(tasks) :
             WriteApplied(c) =>
                 ServedIfFewHigher(redis', c.tenant_id, c.game_id, c.player_id,
                                   c.score)]_vars

\* The shard counts a reader may be configured with.
ShardCounts == {1, 4, ShardCount}

\* C18: for every k >= 0, every shard count and every cache content,
\* get_top_k and get_global_top_k return at most k entries: also when the
\* slices of the shards together hold more than k, and when k = 0.
C18_AtMostK ==
    \A t \in Tenants, k \in 0..MaxK, n \in ShardCounts :
        /\ Len(get_global_top_k(redis, t, k, n, {})) <= k
        /\ \A g \in Games : Len(get_top_k(redis, t, g, k, n, {})) <= k

\* The game leaderboard holds three entries in two shards, the global one
\* two entries in two shards: the slices for k = 2 (k = 1) hold three (two)
\* entries, the results k; for k = 0 each shard is read in full (stop index
\* -1) and the results are empty.
C18_Witness ==
    /\ Len(ShardSlices(redis, "t1", "g1", 2, ShardCount, {}, 0)) = 3
    /\ Len(get_top_k(redis, "t1", "g1", 2, ShardCount, {})) = 2
    /\ Len(GlobalSlices(redis, "t1", 1, ShardCount, {}, 0)) = 2
    /\ Len(get_global_top_k(redis, "t1", 1, ShardCount, {})) = 1
    /\ Len(ShardSlices(redis, "t1", "g1", 0, ShardCount, {}, 0)) = 3
    /\ get_top_k(redis, "t1", "g1", 0, ShardCount, {}) = << >>
    /\ Len(GlobalSlices(redis, "t1", 0, ShardCount, {}, 0)) = 2
    /\ get_global_top_k(redis, "t1", 0, ShardCount, {}) = << >>

(***************************************************************************)
(* SpecFour: a deployment with LEADERBOARD_SHARDS = 4.  Direct calls of    *)
(* update_score for the players a, b, c, e (shards 3, 2, 0, 2 of 4) with   *)
(* the scores 100, 175, 250, one after the other; any command may fail,    *)
(* keys expire.                                                            *)
(***************************************************************************)
FourShards == 4

FourPlayers == {"a", "b", "c", "e"}

FourScores == {100, 175, 250}

CallUpdateScoreFour(tenant_id, game_id, player_id, score) ==
    /\ tasks = EmptyBag
    /\ tasks' = tasks (+) SetToBag({Call(0, tenant_id, game_id, player_id,
                                         AsF64(score), FourShards)})
    /\ UNCHANGED <<redis, db, rowlock, subs, rb>>
    /\ UNCHANGED aside

NextFour ==
    \/ \E t \in Tenants, g \in Games, p \in FourPlayers, s \in FourScores :
          CallUpdateScoreFour(t, g, p, s)
    \/ \E c \in BagToSet(tasks) : UpdateZadd(c)
    \/ \E c \in BagToSet(tasks) : UpdateExpire(c)
    \/ \E k \in DOMAIN redis : KeyExpires(k)

SpecFour == Init /\ [][NextFour]_vars

\* C19: the list get_top_k returns is in non-increasing score order, every
\* pair of it is an entry that one of the shards holds when it is read, and
\* with shard_count = 4 and the cached scores a = 100, b = 250, c = 175
\* get_top_k(k = 3) returns (b, 250), (c, 175), (a, 100) in that order.
C19_SortedEntriesOfShards ==
    \A t \in Tenants, g \in Games :
        /\ \A k \in 0..MaxK :
              LET top == get_top_k(redis, t, g, k, FourShards, {})
              IN  /\ \A i, j \in DOMAIN top : i < j => top[i][2] >= top[j][2]
                  /\ \A i \in DOMAIN top :
                        \E x \in Cached(redis, t, g, FourShards) :
                            x[2] = top[i][1] /\ x[3] = top[i][2]
        /\ Cached(redis, t, g, FourShards)
              = {<<3, "a", 100>>, <<2, "b", 250>>, <<0, "c", 175>>}
           => get_top_k(redis, t, g, 3, FourShards, {})
                 = << <<"b", 250>>, <<"c", 175>>, <<"a", 100>> >>

\* The scenario: a = 100, b = 250, c = 175 are cached in shards 3, 2 and 0
\* of 4, no call is in flight, and get_top_k(3) has three entries.
C19_Witness ==
    /\ tasks = EmptyBag
    /\ Cached(redis, "t1", "g1", FourShards)
         = {<<3, "a", 100>>, <<2, "b", 250>>, <<0, "c", 175>>}
    /\ Len(get_top_k(redis, "t1", "g1", 3, FourShards, {})) = 3

\* The lookup of get_approx_rank (line 80) finds the player with the score.
LookupFinds(r, tenant_id, game_id, player_id, shard_count, score) ==
    zscore(r, RankKey(tenant_id, game_id, player_id, shard_count), player_id, TRUE)
       = <<score>>

\* C20: the read path derives the shard key the write path derived.  Every
\* entry that update_score wrote, called directly or by rebuild_from_db, is
\* found with its score by the lookup of get_approx_rank for the same
\* (tenant, game, player, shard_count): right after the ZADD is applied,
\* and for as long as the entry stands.  The shard is a function of the
\* player id and the shard count alone: no state enters its computation.
C20_ReadKeyIsWriteKey ==
    /\ [](\A t \in Tenants, g \in Games :
             \A x \in Cached(redis, t, g, ShardCount) :
                 LookupFinds(redis, t, g, x[2], ShardCount, x[3]))
    /\ [][/\ \A c \in BagToSet(tasks) :
                WriteApplied(c) =>
                    LookupFinds(redis', c.tenant_id, c.game_id, c.player_id,
                                c.shard_count, c.score)
          /\ RebuildZadd /\ ~rb'.failed =>
                LookupFinds(redis', rb.tenant_id, rb.game_id, Head(rb.rows)[1],
                            rb.shard_count, AsF64(Head(rb.rows)[2]))]_vars

\* A direct call has written a (shard 3) and a rebuild has written its
\* first row (b or e, shard 2); both are found by the lookup.
C20_Witness ==
    /\ \E c \in BagToSet(tasks) :
          /\ c.pc = "expire" /\ c.wrote /\ c.player_id = "a"
          /\ get_approx_rank(redis, c.tenant_id, c.game_id, "a", c.shard_count,
                             TRUE, {}) # << >>
    /\ rb.pc = "run" /\ rb.step = "expire" /\ ~rb.failed
    /\ shard_index(Head(rb.rows)[1], rb.shard_count) # shard_index("a", rb.shard_count)
    /\ LookupFinds(redis, rb.tenant_id, rb.game_id, Head(rb.rows)[1],
                   rb.shard_count, Head(rb.rows)[2])

\* The keys that get_top_k and get_approx_rank scan for a leaderboard.
ScannedKeys(tenant_id, game_id, shard_count) ==
    {key(lb_key(tenant_id, game_id, s)) : s \in Shards(shard_count)}

\* C21: for every player and every shard_count >= 1 the shard index is in
\* [0, shard_count): every update_score call, direct or of a rebuild,
\* writes one of the keys the readers scan, and the cache never holds a
\* key outside of them.
C21_ShardInRange ==
    /\ \A p \in Players, n \in 1..MaxShards : shard_index(p, n) \in Shards(n)
    /\ \A c \in BagToSet(tasks) :
          key(CallKey(c)) \in ScannedKeys(c.tenant_id, c.game_id, c.shard_count)
    /\ rb.pc = "run" =>
          key(UpdateKey(rb.tenant_id, rb.game_id, Head(rb.rows)[1], rb.shard_count))
             \in ScannedKeys(rb.tenant_id, rb.game_id, rb.shard_count)
    /\ DOMAIN redis \subseteq UNION {ScannedKeys(t, g, ShardCount) :
                                        t \in Tenants, g \in Games}

\* Two shard keys exist, a call for a (shard 3 of 8) has written and a
\* rebuild is about to write one for b or e (shard 2 of 8).
C21_Witness ==
    /\ Cardinality(DOMAIN redis) = 2
    /\ \E c \in BagToSet(tasks) : c.pc = "expire" /\ c.wrote /\ c.player_id = "a"
    /\ rb.pc = "run" /\ rb.step = "zadd" /\ Head(rb.rows)[1] \in {"b", "e"}

(***************************************************************************)
(* SpecReshard: the shard count is changed between deployments.  The       *)
(* initial cache is what a deployment with the default 8 shards left       *)
(* behind for the players a and b (shards 3 and 2 of 8; shards 0 and 1 of  *)
(* 3); from there every update_score runs with shard_count = 3.  Any       *)
(* command may fail, keys expire.                                          *)
(***************************************************************************)
NewShards == 3

ReshardPlayers == {"a", "b"}

InitReshard ==
    /\ db = Table([a |-> 250, b |-> 250])
    /\ \E cached \in [ReshardPlayers -> {Absent} \cup CallScores],
          secs \in {0, TtlSecs} :
          redis = WithTtl(CacheOf(cached, ReshardPlayers), secs)
    /\ rowlock = << >>
    /\ tasks = EmptyBag
    /\ subs = << >>
    /\ rb = NoRebuild
    /\ AsideInit

CallUpdateScoreNew(tenant_id, game_id, player_id, score) ==
    /\ BagCardinality(tasks) < MaxCalls
    /\ tasks' = tasks (+) SetToBag({Call(0, tenant_id, game_id, player_id,
                                         AsF64(score), NewShards)})
    /\ UNCHANGED <<redis, db, rowlock, subs, rb>>
    /\ UNCHANGED aside

NextReshard ==
    \/ \E t \in Tenants, g \in Games, p \in ReshardPlayers, s \in CallScores :
          CallUpdateScoreNew(t, g, p, s)
    \/ \E c \in BagToSet(tasks) : UpdateZadd(c)
    \/ \E c \in BagToSet(tasks) : UpdateExpire(c)
    \/ \E k \in DOMAIN redis : KeyExpires(k)

SpecReshard == InitReshard /\ [][NextReshard]_vars

\* The entries <<shard, player, score>> of a leaderboard that sit in a
\* shard other than the one the player hashes to under shard_count.
Orphans(r, tenant_id, game_id, shard_count) ==
    {x \in Cached(r, tenant_id, game_id, MaxShards) :
        x[1] # shard_index(x[2], shard_count)}

\* Those of them that sit in a shard index the readers do not scan.
OrphansOutOfRange(r, tenant_id, game_id, shard_count) ==
    {x \in Orphans(r, tenant_id, game_id, shard_count) : x[1] >= shard_count}

\* The cache without the entries E of the leaderboard; a sorted set that
\* loses its last member is no key any more.
WithoutEntries(r, tenant_id, game_id, E) ==
    LET Gone(K) == {x[2] : x \in {y \in E : key(lb_key(tenant_id, game_id, y[1])) = K}}
        Left(K) == DOMAIN r[K].zset \ Gone(K)
    IN  [K \in {K \in DOMAIN r : Left(K) # {}} |->
            [r[K] EXCEPT !.zset = Restrict(@, Left(K)),
                         !.age = Restrict(@, Left(K))]]

\* get_top_k and get_approx_rank with shard_count answer as if the entries
\* E were not in the cache.
ReadersIgnore(r, tenant_id, game_id, shard_count, E) ==
    LET without == WithoutEntries(r, tenant_id, game_id, E)
    IN  /\ \A k \in 0..MaxK :
              get_top_k(r, tenant_id, game_id, k, shard_count, {})
                 = get_top_k(without, tenant_id, game_id, k, shard_count, {})
        /\ \A p \in Players :
              get_approx_rank(r, tenant_id, game_id, p, shard_count, TRUE, {})
                 = get_approx_rank(without, tenant_id, game_id, p, shard_count, TRUE, {})

\* An orphan that is gone after the step went with its whole key.
OrphansGoOnlyWithKey ==
    \A t \in Tenants, g \in Games :
        \A x \in Orphans(redis, t, g, NewShards) :
            x \notin Orphans(redis', t, g, NewShards)
               => key(lb_key(t, g, x[1])) \notin DOMAIN redis'

\* C22 as claimed: with the new shard count, get_top_k and get_approx_rank
\* never return or count an entry that was written under the previous
\* shard count and whose player now hashes to a different shard, and such
\* an entry disappears only with the expiry of its key.
C22_OrphansUnreachable ==
    /\ [](\A t \in Tenants, g \in Games :
             ReadersIgnore(redis, t, g, NewShards, Orphans(redis, t, g, NewShards)))
    /\ [][OrphansGoOnlyWithKey]_vars

\* C22, amended: the same for the entries left in a shard index at or above
\* the new shard count; the player's own lookup never reads an orphan
\* (get_approx_rank is None exactly when the player has no entry in its
\* new shard); every orphan disappears only with the expiry of its key.
C22_OrphansOutOfRangeUnreachable ==
    /\ [](\A t \in Tenants, g \in Games :
             /\ ReadersIgnore(redis, t, g, NewShards,
                              OrphansOutOfRange(redis, t, g, NewShards))
             /\ \A p \in Players :
                   get_approx_rank(redis, t, g, p, NewShards, TRUE, {}) = << >>
                      <=> OwnEntries(redis, t, g, p, NewShards) = {})
    /\ [][OrphansGoOnlyWithKey]_vars

\* a's old entry (250, shard 3 of 8) is still cached, out of the range of a
\* reader with 3 shards, while a has been written again under 3 shards
\* (100, shard 0): the reader's top list is a's new entry alone.
C22_Witness ==
    /\ <<3, "a", 250>> \in OrphansOutOfRange(redis, "t1", "g1", NewShards)
    /\ get_top_k(redis, "t1", "g1", MaxK, NewShards, {}) = << <<"a", 100>> >>
    /\ get_approx_rank(redis, "t1", "g1", "a", NewShards, TRUE, {}) = <<1>>

\* C23: for every limit query parameter (absent, zero, positive, negative)
\* get_game_leaderboard hands get_top_k a page size between 0 and 100, 50
\* when the parameter is absent, and an Ok response lists no more than 100
\* entries.  (A negative LimitOf stands for the usize 2^64 + limit.)
C23_PageSizeCapped ==
    \A t \in Tenants, g \in Games, q \in QueryLimits :
        /\ LimitOf(q) \in 0..LimitCap
        /\ q = << >> => LimitOf(q) = DefaultLimit
        /\ \A resp \in get_game_leaderboard(redis, db, players, t, g, q, ShardCount, {}, TRUE) :
              resp.status = "ok" => Len(resp.entries) <= LimitCap

\* C24: the count a completing rebuild_from_db returns is the number of
\* entries present in the shards of the rebuilt leaderboard (every cached
\* player of SpecRebuild has a durable row, so every entry present is one
\* the rebuild wrote or rewrote).
C24_CountIsRehydrated ==
    [][RebuildCompletes
          => rb'.count = Cardinality(Cached(redis', rb'.tenant_id, rb'.game_id,
                                            rb'.shard_count))]_vars

\* C25: once every update_score under way has returned (no call and no
\* rebuild between its ZADD and its EXPIRE), every shard key in the cache
\* has a TTL, of 7200 seconds at most, whatever commands failed before.
C25_EveryKeyHasTtl ==
    (tasks = EmptyBag /\ rb.pc # "run")
       => \A K \in DOMAIN redis : redis[K].volatile /\ redis[K].ttl <= TtlSecs

(***************************************************************************)
(* SpecServe: the whole write side.  Two submit_score requests of one      *)
(* player with their detached cache-update tasks, rebuild_from_db and key  *)
(* expiry, on an empty table and an empty cache; every statement and every *)
(* cache command may fail.  SpecSync is the write side without the rebuild *)
(* and with routes/sync.rs, batch_sync, whose score_submit operation       *)
(* raises the durable high score and stars in one autocommit statement and *)
(* touches neither the cache nor the players row.                          *)
(***************************************************************************)
ServePlayers == {"b"}

\* The scores of the requests, in the order the handlers are entered.  A
\* request does nothing before its first await, so either may overtake the
\* other at every later step.
ServeScores == <<100, 50>>

\* sync.rs lines 36-58, one "score_submit" operation: score =
\* op.score.unwrap_or(0), stars = op.stars.unwrap_or(0); INSERT ... VALUES
\* (..., stars 0, ...) ON CONFLICT DO UPDATE SET high_score =
\* GREATEST(game_progress.high_score, EXCLUDED.high_score), stars =
\* GREATEST(game_progress.stars, $6).  The statement waits for the row lock
\* and leaves the players row alone.
batch_sync(tenant_id, game_id, player_id, score, stars) ==
    LET row == Row(tenant_id, game_id, player_id)
    IN  /\ row \notin DOMAIN rowlock
        /\ db' = IF row \in DOMAIN db
                 THEN [db EXCEPT ![row] = [high_score |-> Max(@.high_score, score),
                                           stars |-> Max(@.stars, stars)]]
                 ELSE (row :> [high_score |-> score, stars |-> 0]) @@ db
        /\ UNCHANGED <<redis, rowlock, tasks, subs, rb>>
        /\ UNCHANGED aside

NextServe ==
    \/ \E t \in Tenants, g \in Games, p \in ServePlayers :
          /\ Len(subs) < Len(ServeScores)
          /\ Submit(t, g, p, ServeScores[Len(subs) + 1])
    \/ \E id \in 1..MaxSubs : Begin(id)
    \/ \E id \in 1..MaxSubs : ReadPrev(id)
    \/ \E id \in 1..MaxSubs : Upsert(id)
    \/ \E id \in 1..MaxSubs : UpdateStars(id)
    \/ \E id \in 1..MaxSubs : UpdateTotals(id)
    \/ \E id \in 1..MaxSubs : InsertHistory(id)
    \/ \E id \in 1..MaxSubs : Commit(id)
    \/ \E id \in 1..MaxSubs : Evaluate(id)
    \/ \E c \in BagToSet(tasks) : UpdateZadd(c)
    \/ \E c \in BagToSet(tasks) : UpdateExpire(c)
    \/ \E t \in Tenants, g \in Games : RebuildStart(t, g)
    \/ RebuildZadd
    \/ RebuildExpire
    \/ RebuildReturn
    \/ \E K \in DOMAIN redis : KeyExpires(K)

SpecServe == InitSubmit /\ [][NextServe]_vars

\* The players that send a batch: e, and c, whose
\* token was issued by another tenant (no players row in t1).
SyncPlayers == {"e", "c"}

SyncScores == {MinScore - 1, 100}

\* stars of a score_submit operation: absent (0) or 3.
SyncStars == {0, 3}

NextSync ==
    \/ \E t \in Tenants, g \in Games, p \in ServePlayers : Submit(t, g, p, 50)
    \/ \E id \in 1..MaxSubs : Begin(id)
    \/ \E id \in 1..MaxSubs : ReadPrev(id)
    \/ \E id \in 1..MaxSubs : Upsert(id)
    \/ \E id \in 1..MaxSubs : UpdateStars(id)
    \/ \E id \in 1..MaxSubs : UpdateTotals(id)
    \/ \E id \in 1..MaxSubs : InsertHistory(id)
    \/ \E id \in 1..MaxSubs : Commit(id)
    \/ \E id \in 1..MaxSubs : Evaluate(id)
    \/ \E c \in BagToSet(tasks) : UpdateZadd(c)
    \/ \E c \in BagToSet(tasks) : UpdateExpire(c)
    \/ \E K \in DOMAIN redis : KeyExpires(K)
    \/ \E t \in Tenants, g \in Games, p \in SyncPlayers, s \in SyncScores,
          st \in SyncStars :
          batch_sync(t, g, p, s, st)

SpecSync == InitSubmit /\ [][NextSync]_vars

\* No submission is under way and no cache-update task is left.
Quiescent ==
    /\ tasks = EmptyBag
    /\ \A id \in DOMAIN subs : subs[id].pc \in {"done", "error"}

\* The limit parameters that are absent or not negative.
PageLimits == {q \in QueryLimits : q = << >> \/ q[1] >= 0}

\* The <<player, score>> pairs of the entries of a response.
ListOf(resp) == [i \in DOMAIN resp.entries |-> <<resp.entries[i][1], resp.entries[i][2]>>]

\* C26: in every state with no submission and no cache-update task in
\* flight, get_game_leaderboard (durable store answering, cache reads
\* succeeding) serves the durable top `limit` rows by high_score, for every
\* limit that is absent or not negative.
C26_CacheTransparent ==
    Quiescent =>
       \A t \in Tenants, g \in Games, q \in PageLimits :
          \A resp \in get_game_leaderboard(redis, db, players, t, g, q, ShardCount, {}, TRUE) :
             /\ resp.status = "ok"
             /\ IsDurableTopK(ListOf(resp), db, t, g, LimitOf(q))

\* C27: in every state reached by submit_score requests, their detached
\* cache-update tasks, rebuilds and key expiry, every cached entry belongs
\* to a player with a durable row and its score is not above that row's
\* high score.
C27_CachedAtMostDurable ==
    \A t \in Tenants, g \in Games :
        \A x \in Cached(redis, t, g, ShardCount) :
            /\ Row(t, g, x[2]) \in DOMAIN db
            /\ x[3] <= AsF64(db[Row(t, g, x[2])].high_score)

\* Two submissions of b are committed and a rebuild has run to its end,
\* yet b's entry is stale: 50 cached, 100 durable.
C27_Witness ==
    /\ rb.pc = "done"
    /\ rb.count = 1
    /\ Len(subs) = 2
    /\ \A id \in DOMAIN subs : subs[id].committed /\ subs[id].player_id = "b"
    /\ Cached(redis, "t1", "g1", ShardCount) = {<<2, "b", 50>>}
    /\ db[Row("t1", "g1", "b")].high_score = 100


(***************************************************************************)
(* SpecKeys: update_score and update_global_score, one call after the      *)
(* other, with the identifiers a caller can supply.  The game id is the    *)
(* path segment of the request, any string; the tenant id is the second    *)
(* "_"-separated part of the API key header, any string without "_".       *)
(***************************************************************************)
KeyTenants == {"t1", "t1:g1"}

KeyGames == {"g1", "global", "g1:g1"}

KeyPlayer == "a"

CallUpdateScoreAny(tenant_id, game_id, player_id, score) ==
    /\ tasks = EmptyBag
    /\ tasks' = tasks (+) SetToBag({Call(0, tenant_id, game_id, player_id,
                                         AsF64(score), ShardCount)})
    /\ UNCHANGED <<redis, db, rowlock, subs, rb>>
    /\ UNCHANGED aside

NextKeys ==
    \/ \E t \in KeyTenants, g \in KeyGames :
          CallUpdateScoreAny(t, g, KeyPlayer, 100)
    \/ \E c \in BagToSet(tasks) : UpdateZadd(c)
    \/ \E c \in BagToSet(tasks) : UpdateExpire(c)
    \/ \E t \in KeyTenants :
          tasks = EmptyBag /\ CallUpdateGlobalScore(t, KeyPlayer, 300)
    \/ \E c \in BagToSet(tasks) : GlobalZadd(c)
    \/ \E c \in BagToSet(tasks) : GlobalExpire(c)
    \/ \E K \in DOMAIN redis : KeyExpires(K)

SpecKeys == Init /\ [][NextKeys]_vars

\* The entries <<shard, player, score>> of a tenant's global leaderboard.
GlobalCached(r, tenant_id, shard_count) ==
    UNION { LET K == key(global_key(tenant_id, s))
            IN  IF K \in DOMAIN r
                THEN {<<s, m, r[K].zset[m]>> : m \in DOMAIN r[K].zset}
                ELSE {}
            : s \in Shards(shard_count) }

\* A leaderboard slot <<tenant, board, shard>>: board is <<game>> for a
\* per-game leaderboard, << >> for the global one.
Slots ==
    KeyTenants \X ({<<g>> : g \in KeyGames} \cup {<< >>}) \X Shards(ShardCount)

SlotKey(slot) ==
    IF slot[2] = << >> THEN global_key(slot[1], slot[3])
    ELSE lb_key(slot[1], slot[2][1], slot[3])

\* The step leaves every per-game leaderboard but (tenant_id, game_id) and
\* every global leaderboard as they were.
OtherBoardsUnchanged(tenant_id, game_id) ==
    /\ \A t \in KeyTenants, g \in KeyGames :
          <<t, g>> # <<tenant_id, game_id>>
             => Cached(redis', t, g, ShardCount) = Cached(redis, t, g, ShardCount)
    /\ \A t \in KeyTenants :
          GlobalCached(redis', t, ShardCount) = GlobalCached(redis, t, ShardCount)

\* The step leaves every per-game leaderboard as it was.
GameBoardsUnchanged ==
    \A t \in KeyTenants, g \in KeyGames :
        Cached(redis', t, g, ShardCount) = Cached(redis, t, g, ShardCount)

\* C28: distinct (tenant, game-or-global, shard) triples have distinct keys;
\* the write of an update_score on (tenant, game) changes no entry of any
\* other per-game leaderboard and of any global leaderboard, and the write
\* of an update_global_score changes no entry of any per-game leaderboard.
C28_IsolatedByKey ==
    /\ [](\A x, y \in Slots : x # y => SlotKey(x) # SlotKey(y))
    /\ [][\A c \in BagToSet(tasks) :
             /\ UpdateZadd(c) => OtherBoardsUnchanged(c.tenant_id, c.game_id)
             /\ GlobalZadd(c) => GameBoardsUnchanged]_vars


(***************************************************************************)
(* get_approx_rank as a running call: the ZSCORE of line 80 and the        *)
(* ZREVRANGE of each shard (line 85) are await points, between which       *)
(* update_score calls run.  A rank call is a record of tasks with pc       *)
(* "rank_lookup", "rank_scan" or "rank_return"; own is <<score>> once looked *)
(* up, shard the next shard to scan, rank << >> (None) or <<n>>.           *)
(* SpecRank: one rank call at a time next to direct update_score calls;    *)
(* any command may fail; no key expires.                                   *)
(***************************************************************************)
RankCall(tenant_id, game_id, player_id, shard_count) ==
    [pc |-> "rank_lookup", tenant_id |-> tenant_id, game_id |-> game_id,
     player_id |-> player_id, shard_count |-> shard_count, own |-> << >>,
     shard |-> 0, higher_count |-> 0, rank |-> << >>]

RankCalls == {c \in BagToSet(tasks) : c.pc \in {"rank_lookup", "rank_scan", "rank_return"}}

CallGetApproxRank(tenant_id, game_id, player_id) ==
    /\ RankCalls = {}
    /\ BagCardinality(tasks) < MaxCalls
    /\ tasks' = tasks (+) SetToBag({RankCall(tenant_id, game_id, player_id, ShardCount)})
    /\ UNCHANGED <<redis, db, rowlock, subs, rb>>
    /\ UNCHANGED aside

\* Lines 77-80: let score = cache.zscore(&key, player_id).await?;
RankLookup(c) ==
    /\ BagIn(c, tasks)
    /\ c.pc = "rank_lookup"
    /\ \E zok \in BOOLEAN :
          LET score == zscore(redis, RankKey(c.tenant_id, c.game_id, c.player_id,
                                             c.shard_count), c.player_id, zok)
          IN  tasks' = (tasks (-) SetToBag({c})) (+)
                 SetToBag({IF score = << >>
                           THEN [c EXCEPT !.pc = "rank_return"]
                           ELSE [c EXCEPT !.pc = "rank_scan", !.own = score]})
    /\ UNCHANGED <<redis, db, rowlock, subs, rb>>
    /\ UNCHANGED aside

\* Lines 83-91, one turn of the loop; after the last shard line 93:
\* Some(higher_count + 1).
RankScan(c) ==
    /\ BagIn(c, tasks)
    /\ c.pc = "rank_scan"
    /\ \E ok \in BOOLEAN :
          LET entries == zrevrange_withscores(redis, lb_key(c.tenant_id, c.game_id, c.shard),
                                              0, -1, ok)
              higher  == c.higher_count + CountHigher(entries, c.own[1])
          IN  tasks' = (tasks (-) SetToBag({c})) (+)
                 SetToBag({IF c.shard + 1 >= c.shard_count
                           THEN [c EXCEPT !.pc = "rank_return", !.shard = @ + 1,
                                          !.higher_count = higher,
                                          !.rank = <<higher + 1>>]
                           ELSE [c EXCEPT !.shard = @ + 1, !.higher_count = higher]})
    /\ UNCHANGED <<redis, db, rowlock, subs, rb>>
    /\ UNCHANGED aside

\* The caller takes the result.
RankReturn(c) ==
    /\ BagIn(c, tasks)
    /\ c.pc = "rank_return"
    /\ tasks' = tasks (-) SetToBag({c})
    /\ UNCHANGED <<redis, db, rowlock, subs, rb>>
    /\ UNCHANGED aside

NextRank ==
    \/ \E t \in Tenants, g \in Games, p \in CallPlayers, s \in CallScores :
          CallUpdateScore(t, g, p, s)
    \/ \E c \in BagToSet(tasks) : UpdateZadd(c)
    \/ \E c \in BagToSet(tasks) : UpdateExpire(c)
    \/ \E t \in Tenants, g \in Games, p \in CallPlayers : CallGetApproxRank(t, g, p)
    \/ \E c \in BagToSet(tasks) : RankLookup(c)
    \/ \E c \in BagToSet(tasks) : RankScan(c)
    \/ \E c \in BagToSet(tasks) : RankReturn(c)

SpecRank == Init /\ [][NextRank]_vars

\* The players cached for a (tenant, game).
PlayersCached(r, tenant_id, game_id, shard_count) ==
    {x[2] : x \in Cached(r, tenant_id, game_id, shard_count)}

\* C29: a rank that get_approx_rank returns is at least 1 and at most the
\* number of players cached for the (tenant, game) when it returns (no
\* key expires in SpecRank, so that number never falls during the call).
C29_RankWithinCached ==
    \A c \in RankCalls :
        (c.pc = "rank_return" /\ c.rank # << >>)
           => c.rank[1] \in 1..Cardinality(PlayersCached(redis, c.tenant_id, c.game_id,
                                                         c.shard_count))

(***************************************************************************)
(* SpecCommute: a set of update_score tasks for pairwise different players *)
(* of one leaderboard, all dispatched, complete in any order, their ZADD   *)
(* and EXPIRE commands interleaved; b and e share shard 2, a has shard 3.  *)
(* db holds the score each task carries (the high score its submission     *)
(* committed); the cache starts with an entry of b.  No command fails and  *)
(* no key expires while the tasks run.                                     *)
(***************************************************************************)
CommutePlayers == {"a", "b", "e"}

PriorCache == [a |-> Absent, b |-> 175, e |-> Absent]

InitCommute ==
    /\ \E issued \in [CommutePlayers -> {Absent} \cup CallScores] :
          LET P == {p \in CommutePlayers : issued[p] # Absent}
          IN  /\ db = Table(Restrict(issued, P))
              /\ tasks = SetToBag({Call(0, "t1", "g1", p, AsF64(issued[p]), ShardCount) :
                                      p \in P})
    /\ redis = WithTtl(CacheOf(PriorCache, CommutePlayers), TtlSecs)
    /\ rowlock = << >>
    /\ subs = << >>
    /\ rb = NoRebuild
    /\ AsideInit

NextCommute ==
    \/ \E c \in BagToSet(tasks) : ZaddApplied(c)
    \/ \E c \in BagToSet(tasks) : ExpireApplied(c)

SpecCommute == InitCommute /\ [][NextCommute]_vars

\* The entries the tasks must leave, in whatever order they ran: the score
\* of its task for a player that has one, the prior entry for the others.
EntriesAfterAll ==
    {<<shard_index(p, ShardCount), p,
       IF Row("t1", "g1", p) \in DOMAIN db
       THEN AsF64(db[Row("t1", "g1", p)].high_score)
       ELSE AsF64(PriorCache[p])>> :
        p \in {q \in CommutePlayers :
                  Row("t1", "g1", q) \in DOMAIN db \/ PriorCache[q] # Absent}}

\* C30: once all update_score tasks of pairwise different players have
\* completed, the cached entries are the same whatever the order of their
\* commands was: each player's entry is the score of that player's task.
C30_UpdatesCommute ==
    tasks = EmptyBag => Cached(redis, "t1", "g1", ShardCount) = EntriesAfterAll

\* Three tasks have completed, two of them on the shared shard 2 with
\* different scores.
C30_Witness ==
    /\ tasks = EmptyBag
    /\ Cached(redis, "t1", "g1", ShardCount)
          = {<<3, "a", 100>>, <<2, "b", 250>>, <<2, "e", 100>>}

\* newAchievements of the Ok response of a request.
newAchievements(sub) ==
    IF sub.pc = "done"
    THEN {sub.newly_awarded[i] : i \in DOMAIN sub.newly_awarded}
    ELSE {}

(***************************************************************************)
(* SpecAward: concurrent submissions on an empty store, by a player of the *)
(* tenant and by one without a players row in it, each followed by its     *)
(* achievement evaluation, and guest logins, which insert the players row; *)
(* player_achievements with and without its unique key.                    *)
(***************************************************************************)
\* routes/auth.rs, guest, lines 26-37: INSERT INTO players (...) VALUES
\* (..., true, 0, 0) ON CONFLICT (id, tenant_id) DO UPDATE SET last_login_at
\* = NOW(), for the player id of the body.  On a row that exists the
\* statement waits for the row lock and leaves the totals; on `?` nothing is
\* written.  The token and the response are not kept.
guest(tenant_id, player_id) ==
    /\ <<tenant_id, player_id>> \notin DOMAIN rowlock
    /\ \E ok \in BOOLEAN :
          players' = IF ok /\ <<tenant_id, player_id>> \notin DOMAIN players
                     THEN (<<tenant_id, player_id>> :>
                               [total_score |-> 0, games_played |-> 0]) @@ players
                     ELSE players
    /\ UNCHANGED <<redis, db, rowlock, tasks, subs, rb>>
    /\ UNCHANGED services

AwardPlayer == "b"

\* c holds a token of another tenant: it has no players row in t1.
AwardPlayers == {AwardPlayer, "c"}

AwardScores == {MinScore - 1, MinScore, MaxScore, MaxScore + 1}

\* b submits every score of AwardScores, c the lowest score accepted.
AwardInputs == {<<AwardPlayer, s>> : s \in AwardScores} \cup {<<"c", MinScore>>}

NextAward ==
    \/ \E t \in Tenants, g \in Games, x \in AwardInputs : Submit(t, g, x[1], x[2])
    \/ \E t \in Tenants, p \in AwardPlayers : guest(t, p)
    \/ \E id \in 1..MaxSubs : Begin(id)
    \/ \E id \in 1..MaxSubs : ReadPrev(id)
    \/ \E id \in 1..MaxSubs : Upsert(id)
    \/ \E id \in 1..MaxSubs : UpdateStars(id)
    \/ \E id \in 1..MaxSubs : UpdateTotals(id)
    \/ \E id \in 1..MaxSubs : InsertHistory(id)
    \/ \E id \in 1..MaxSubs : Commit(id)
    \/ \E id \in 1..MaxSubs : Evaluate(id)
    \/ \E c \in BagToSet(tasks) : UpdateZadd(c)
    \/ \E c \in BagToSet(tasks) : UpdateExpire(c)

InitAward ==
    /\ redis = << >>
    /\ db = << >>
    /\ rowlock = << >>
    /\ tasks = EmptyBag
    /\ subs = << >>
    /\ rb = NoRebuild
    /\ TablesInit
    /\ award_key \in BOOLEAN
    /\ ReleaseBuild

SpecAward == InitAward /\ [][NextAward]_vars

ReportedBy(player_id, a) ==
    {i \in DOMAIN subs : subs[i].player_id = player_id /\ a \in newAchievements(subs[i])}

\* C31: over all submissions of one player, each achievement id is reported
\* as newly unlocked by at most one submission and is stored at most once
\* in player_achievements.
C31_AwardedOnce ==
    \A p \in AwardPlayers, a \in AchievementIds :
       /\ Cardinality(ReportedBy(p, a)) <= 1
       /\ CopiesIn(<<"t1", p, a>>, player_achievements) <= 1

(***************************************************************************)
(* SpecStars: concurrent submissions of one player to a game of the        *)
(* threshold table and to a game outside it, with scores on both sides of  *)
(* the thresholds.                                                         *)
(***************************************************************************)
\* The game ids of the table of star_thresholds.
TableGames ==
    {"PhysicsMasterBilliards", "STEMProjectVolley", "DroneDefense", "CampusDash",
     "ChemistryLab", "MathBlaster", "BiologyExplorer", "CodeRunner", "GeoQuest",
     "RobotBuilder", "SpaceNavigator", "CircuitMaster", "EcoSystem",
     "DataDetective", "WeatherStation", "LabSafety", "BridgeBuilder",
     "StarMapper", "MicroWorld", "EnergyGrid", "FossilHunter", "VolcanoLab",
     "OceanExplorer", "GeneticLab", "RocketScience"}

\* A game of the table with scores that reach 0, 2 and 3 of its thresholds
\* (200, 600, 1500), and a game outside it with scores that reach 1 and 2 of
\* the default ones.
StarInputs == {<<"PhysicsMasterBilliards", 99>>, <<"PhysicsMasterBilliards", 600>>,
               <<"PhysicsMasterBilliards", 1500>>, <<"g1", 100>>, <<"g1", 300>>}

StarPlayer == "b"

NextStars ==
    \/ \E t \in Tenants, x \in StarInputs : Submit(t, x[1], StarPlayer, x[2])
    \/ \E id \in 1..MaxSubs : Begin(id)
    \/ \E id \in 1..MaxSubs : ReadPrev(id)
    \/ \E id \in 1..MaxSubs : Upsert(id)
    \/ \E id \in 1..MaxSubs : UpdateStars(id)
    \/ \E id \in 1..MaxSubs : UpdateTotals(id)
    \/ \E id \in 1..MaxSubs : InsertHistory(id)
    \/ \E id \in 1..MaxSubs : Commit(id)
    \/ \E id \in 1..MaxSubs : Evaluate(id)
    \/ \E c \in BagToSet(tasks) : UpdateZadd(c)
    \/ \E c \in BagToSet(tasks) : UpdateExpire(c)

SpecStars == InitSubmit /\ [][NextStars]_vars

\* The requests that have computed their stars (line 69).
Starred == {i \in DOMAIN subs : subs[i].pc \in {"totals", "history", "commit", "done"}
                                  \cup EvaluatePcs}

TripleOf(game_id) ==
    IF game_id \in TableGames THEN star_thresholds(game_id) ELSE <<100, 300, 600>>

ThresholdsReached(game_id, score) ==
    Cardinality({k \in 1..3 : score >= TripleOf(game_id)[k]})

StarsCountThresholds ==
    \A i \in Starred :
       /\ TripleOf(subs[i].game_id)[1] < TripleOf(subs[i].game_id)[2]
       /\ TripleOf(subs[i].game_id)[2] < TripleOf(subs[i].game_id)[3]
       /\ subs[i].stars \in 0..3
       /\ subs[i].stars = ThresholdsReached(subs[i].game_id, subs[i].new_high)

StarsMonotone ==
    \A i, j \in Starred :
       (subs[i].game_id = subs[j].game_id /\ subs[i].new_high <= subs[j].new_high)
          => subs[i].stars <= subs[j].stars

StoredStarsStay ==
    \A row \in DOMAIN db : row \in DOMAIN db' /\ db'[row].stars >= db[row].stars

\* C32: calculate_stars returns the number of the game's three ascending
\* thresholds the score reaches (0..3), with the triple [100, 300, 600] for
\* a game outside the table; it is monotone in the score; and no step makes
\* the stars stored for a record smaller.
C32_StarsCountAndNeverDrop ==
    [][StarsCountThresholds' /\ StarsMonotone' /\ StoredStarsStay]_vars

\* A record holds 3 stars after a submission that computed 0 stars from a
\* stale read has committed on it.
C32_Witness ==
    \E i, j \in DOMAIN subs :
       /\ subs[i].committed /\ subs[j].committed
       /\ subs[i].game_id = "PhysicsMasterBilliards"
       /\ subs[j].game_id = "PhysicsMasterBilliards"
       /\ subs[i].stars = 3 /\ subs[j].stars = 0
       /\ db[SubRow(subs[i])].stars = 3

OutOfRange(score) == score < MinScore \/ score > MaxScore

\* A request that was answered BadRequest and has done nothing: it holds
\* no transaction, no row lock and no task, and never began to evaluate.
RejectedClean(id) ==
    /\ subs[id].pc = "error" /\ subs[id].failedAt = "validate"
    /\ subs[id].pending = << >>
    /\ ~subs[id].committed /\ ~subs[id].spawned
    /\ \A row \in DOMAIN rowlock : rowlock[row] # id
    /\ OwnTask(id) = {}
    /\ subs[id].seen = NoStats /\ subs[id].todo = << >>
    /\ subs[id].newly_awarded = << >>

Arrives == Len(subs') = Len(subs) + 1

\* C33: a submission whose score is below 0 or above 999999 is rejected
\* with BadRequest and changes nothing: the step that answers it writes no
\* durable row, dispatches no cache update and evaluates no achievement,
\* and the request takes no step afterwards.
C33_RejectedChangesNothing ==
    [][/\ \A id \in DOMAIN subs' : OutOfRange(subs'[id].score) => RejectedClean(id)'
       /\ \A id \in DOMAIN subs : OutOfRange(subs[id].score) => subs'[id] = subs[id]
       /\ (Arrives /\ OutOfRange(subs'[Len(subs')].score))
             => UNCHANGED <<db, redis, rowlock, tasks, player_achievements, players>>]_vars

\* A score above the range was rejected after another submission had been
\* stored and answered.
C33_Witness ==
    /\ Len(subs) = 2
    /\ subs[1].pc = "done" /\ db # << >>
    /\ subs[2].score = MaxScore + 1 /\ subs[2].pc = "error"
    /\ subs[2].failedAt = "validate"

(***************************************************************************)
(* services/room_manager.rs: RoomManager.  rooms and player_rooms are two  *)
(* tokio RwLocks over hash maps.  A call in flight is a record of the bag  *)
(* tasks: call names the function it runs, pc the await it stands at.  A   *)
(* guard is held from the step that takes it to the step that drops it;    *)
(* the only guards held across an await are the rooms write guard of       *)
(* create_room (line 71, held over line 74) and the player_rooms read      *)
(* guard of get_player_room (line 146, held over line 148).  A lock is     *)
(* granted when no conflicting guard is held; the queue of the lock, which *)
(* only adds waiting, is left out.  Room ids are fresh: 1, 2, ...          *)
(***************************************************************************)
MaxRooms == 2

MaxOps == 2

RoomPlayers == {"a", "b"}

\* max_players of a CreateRoomRequest: any i32, 4 when absent.
RoomSizes == {-1, 0, 1, 4}

RoomIds == 1..MaxRooms

RoomCall(call, player_id, room_id, game_id, max_players, is_private) ==
    [call |-> call, player_id |-> player_id, room_id |-> room_id,
     game_id |-> game_id, max_players |-> max_players,
     is_private |-> is_private, fallback |-> FALSE, pc |-> "start"]

others == <<redis, db, rowlock, subs, rb, player_achievements, windows, now, players,
           award_key, overflow_checks>>

Becomes(c, d) == tasks' = (tasks (-) SetToBag({c})) (+) SetToBag({d})

Returns(c) == tasks' = tasks (-) SetToBag({c})

\* The calls that may still insert a room.
Creators ==
    {c \in BagToSet(tasks) :
        /\ c.pc = "start"
        /\ \/ c.call \in {"create_room", "find_match"}
           \/ c.call = "join_room" /\ c.fallback}

RoomBudget ==
    Cardinality(DOMAIN rooms) + Cardinality({c \in BagToSet(tasks) : c.pc = "insert"})
       + BagCardinality([c \in Creators |-> CopiesIn(c, tasks)]) < MaxRooms

StartCall(c) ==
    /\ BagCardinality(tasks) < MaxOps
    /\ tasks' = tasks (+) SetToBag({c})
    /\ UNCHANGED <<rooms, player_rooms>>
    /\ UNCHANGED others

\* routes/multiplayer.rs, lines 32-44: max_players is passed on as it came.
CallCreateRoom(player_id, game_id, max_players, is_private) ==
    /\ RoomBudget
    /\ StartCall(RoomCall("create_room", player_id, 0, game_id, max_players, is_private))

CallJoinRoom(room_id, player_id) ==
    StartCall(RoomCall("join_room", player_id, room_id, "", 0, FALSE))

CallFindMatch(player_id, game_id) ==
    /\ RoomBudget
    /\ StartCall(RoomCall("find_match", player_id, 0, game_id, 0, FALSE))

CallGetRoom(room_id) == StartCall(RoomCall("get_room", "", room_id, "", 0, FALSE))

CallListRooms == StartCall(RoomCall("list_rooms", "", 0, "", 0, FALSE))

CallGetPlayerRoom(player_id) ==
    StartCall(RoomCall("get_player_room", player_id, 0, "", 0, FALSE))

\* The rooms write guard create_room holds while it waits for player_rooms.
RoomsWriteHeld == \E c \in BagToSet(tasks) : c.pc = "insert"

\* The player_rooms read guard get_player_room holds while it waits for rooms.
PlayerRoomsReadHeld == \E c \in BagToSet(tasks) : c.pc = "lookup"

NewRoomId == Cardinality(DOMAIN rooms) + 1

\* Lines 59-72: the room is built and inserted under the rooms write guard.
CreateInsertRoom(c) ==
    /\ c.call = "create_room" /\ c.pc = "start"
    /\ ~RoomsWriteHeld
    /\ rooms' = (NewRoomId :> [game_id |-> c.game_id, host_id |-> c.player_id,
                               players |-> <<c.player_id>>,
                               max_players |-> c.max_players,
                               state |-> "waiting",
                               is_private |-> c.is_private]) @@ rooms
    /\ Becomes(c, [c EXCEPT !.pc = "insert", !.room_id = NewRoomId])
    /\ UNCHANGED player_rooms
    /\ UNCHANGED others

\* Lines 74-77: player_rooms write guard, insert, return; both guards drop.
CreateInsertPlayer(c) ==
    /\ c.call = "create_room" /\ c.pc = "insert"
    /\ ~PlayerRoomsReadHeld
    /\ player_rooms' = [p \in DOMAIN player_rooms \cup {c.player_id} |->
                           IF p = c.player_id THEN c.room_id ELSE player_rooms[p]]
    /\ Returns(c)
    /\ UNCHANGED rooms
    /\ UNCHANGED others

\* Line 93: room.players.len() >= room.max_players as usize.  The cast of a
\* negative i32 gives 2^64 + max_players, which no length reaches.
Full(room) ==
    IF room.max_players < 0 THEN FALSE ELSE Len(room.players) >= room.max_players

InRoom(room, player_id) == \E i \in DOMAIN room.players : room.players[i] = player_id

\* Lines 86-98: the checks of join_room.
JoinRefused(room_id, player_id) ==
    \/ room_id \notin DOMAIN rooms
    \/ rooms[room_id].state # "waiting"
    \/ Full(rooms[room_id])
    \/ InRoom(rooms[room_id], player_id)

\* Lines 85-104, and lines 132-136 for a join made by find_match: an Err is
\* returned, or answered by create_room(player, game_id, 4, false).
JoinPush(c) ==
    /\ c.call = "join_room" /\ c.pc = "start"
    /\ ~RoomsWriteHeld
    /\ IF JoinRefused(c.room_id, c.player_id)
       THEN /\ IF c.fallback
               THEN Becomes(c, RoomCall("create_room", c.player_id, 0, c.game_id, 4, FALSE))
               ELSE Returns(c)
            /\ UNCHANGED rooms
       ELSE /\ rooms' = [rooms EXCEPT ![c.room_id].players = Append(@, c.player_id)]
            /\ Becomes(c, [c EXCEPT !.pc = "record"])
    /\ UNCHANGED player_rooms
    /\ UNCHANGED others

\* Lines 105-108: player_rooms write guard, insert, Ok(result).
JoinRecord(c) ==
    /\ c.call = "join_room" /\ c.pc = "record"
    /\ ~PlayerRoomsReadHeld
    /\ player_rooms' = [p \in DOMAIN player_rooms \cup {c.player_id} |->
                           IF p = c.player_id THEN c.room_id ELSE player_rooms[p]]
    /\ Returns(c)
    /\ UNCHANGED rooms
    /\ UNCHANGED others

\* Lines 24-50 and 111-114: list_rooms and get_room read under the rooms
\* read guard.
ReadRooms(c) ==
    /\ c.call \in {"get_room", "list_rooms"} /\ c.pc = "start"
    /\ ~RoomsWriteHeld
    /\ Returns(c)
    /\ UNCHANGED <<rooms, player_rooms>>
    /\ UNCHANGED others

\* Lines 124-128: the rooms find_match may pick.
Joinable(player_id, game_id) ==
    {r \in DOMAIN rooms :
        /\ rooms[r].game_id = game_id
        /\ rooms[r].state = "waiting"
        /\ ~rooms[r].is_private
        /\ Len(rooms[r].players) < rooms[r].max_players
        /\ ~InRoom(rooms[r], player_id)}

\* Lines 122-142: the scan under the rooms read guard; the first room the
\* map's iteration yields among the joinable ones is joined, else a room is
\* created.
FindMatchScan(c) ==
    /\ c.call = "find_match" /\ c.pc = "start"
    /\ ~RoomsWriteHeld
    /\ IF Joinable(c.player_id, c.game_id) = {}
       THEN Becomes(c, RoomCall("create_room", c.player_id, 0, c.game_id, 4, FALSE))
       ELSE \E r \in Joinable(c.player_id, c.game_id) :
               Becomes(c, [RoomCall("join_room", c.player_id, r, c.game_id, 0, FALSE)
                              EXCEPT !.fallback = TRUE])
    /\ UNCHANGED <<rooms, player_rooms>>
    /\ UNCHANGED others

\* Lines 146-147: player_rooms read guard; None for a player without entry.
GetPlayerRoomLookup(c) ==
    /\ c.call = "get_player_room" /\ c.pc = "start"
    /\ IF c.player_id \in DOMAIN player_rooms
       THEN Becomes(c, [c EXCEPT !.pc = "lookup", !.room_id = player_rooms[c.player_id]])
       ELSE Returns(c)
    /\ UNCHANGED <<rooms, player_rooms>>
    /\ UNCHANGED others

\* Lines 148-149: rooms read guard, the room is cloned; both guards drop.
GetPlayerRoomRead(c) ==
    /\ c.call = "get_player_room" /\ c.pc = "lookup"
    /\ ~RoomsWriteHeld
    /\ Returns(c)
    /\ UNCHANGED <<rooms, player_rooms>>
    /\ UNCHANGED others

\* A step of a call under way.
RoomStep ==
    \E c \in BagToSet(tasks) :
       \/ CreateInsertRoom(c)
       \/ CreateInsertPlayer(c)
       \/ JoinPush(c)
       \/ JoinRecord(c)
       \/ ReadRooms(c)
       \/ FindMatchScan(c)
       \/ GetPlayerRoomLookup(c)
       \/ GetPlayerRoomRead(c)

NextRooms ==
    \/ \E p \in RoomPlayers, g \in Games, m \in RoomSizes, priv \in BOOLEAN :
          CallCreateRoom(p, g, m, priv)
    \/ \E r \in RoomIds, p \in RoomPlayers : CallJoinRoom(r, p)
    \/ \E p \in RoomPlayers, g \in Games : CallFindMatch(p, g)
    \/ \E r \in RoomIds : CallGetRoom(r)
    \/ CallListRooms
    \/ \E p \in RoomPlayers : CallGetPlayerRoom(p)
    \/ \E c \in BagToSet(tasks) : CreateInsertRoom(c)
    \/ \E c \in BagToSet(tasks) : CreateInsertPlayer(c)
    \/ \E c \in BagToSet(tasks) : JoinPush(c)
    \/ \E c \in BagToSet(tasks) : JoinRecord(c)
    \/ \E c \in BagToSet(tasks) : ReadRooms(c)
    \/ \E c \in BagToSet(tasks) : FindMatchScan(c)
    \/ \E c \in BagToSet(tasks) : GetPlayerRoomLookup(c)
    \/ \E c \in BagToSet(tasks) : GetPlayerRoomRead(c)

\* Lines 17-22: RoomManager::new().
SpecRooms == InitSubmit /\ [][NextRooms]_vars

\* C34: no interleaving of RoomManager operations deadlocks on the rooms
\* and player_rooms locks: while a call is under way, some call under way
\* can take its next step.
C34_NoDeadlock == tasks = EmptyBag \/ ENABLED RoomStep

\* C35: in every state a step leads to, no room holds more players than its
\* max_players and no room lists a player twice; and a step adds a player
\* only to a room whose state is waiting.
C35_RoomsWithinBounds ==
    [][\A r \in DOMAIN rooms' :
          /\ Len(rooms'[r].players) <= rooms'[r].max_players
          /\ \A i, j \in DOMAIN rooms'[r].players :
                rooms'[r].players[i] = rooms'[r].players[j] => i = j
          /\ (r \in DOMAIN rooms /\ rooms'[r].players # rooms[r].players)
                => rooms[r].state = "waiting"]_vars

(***************************************************************************)
(* middleware/rate_limit.rs: RateLimiter, a counter per key and window.    *)
(* check reads the clock (lines 37-40), then takes the mutex (line 41) and *)
(* runs lines 43-54 under it; a call between the two is a record of the    *)
(* bag tasks with the clock reading it took.  An entry of windows is       *)
(* [count, reset_at] and two observations about the run: granted, the      *)
(* number of calls that returned true since the entry was last reset, and  *)
(* admitted, the times of the calls that returned true within the last     *)
(* window_secs seconds before the latest of them.                          *)
(***************************************************************************)
\* RateLimitConfig.window_secs.
window_secs == 60

\* RateLimitConfig.max_requests (100) or score_submit_max (30): the limit of
\* the limiter, small here.
max_requests == 2

MaxChecks == 2

\* Calls stop arriving for a key whose count has reached MaxCount.
MaxCount == 4

ClientKeys == {"global:player:a", "global:ip:1"}

\* The instants at which something happens.
ClockTimes == {0, window_secs - 1, window_secs, 2 * window_secs}

beside == <<redis, db, rowlock, subs, rb, player_achievements, rooms, player_rooms,
           players, award_key, overflow_checks>>

\* Time passes.
ClockAdvances ==
    /\ \E t \in ClockTimes : t > now /\ now' = t
    /\ UNCHANGED <<tasks, windows>>
    /\ UNCHANGED beside

\* Lines 36-40: check is called and reads the clock.
CallCheck(ck) ==
    /\ BagCardinality(tasks) < MaxChecks
    /\ ck \in DOMAIN windows => windows[ck].count < MaxCount
    /\ tasks' = tasks (+) SetToBag({[call |-> "check", key |-> ck, now |-> now]})
    /\ UNCHANGED <<windows, now>>
    /\ UNCHANGED beside

\* A limiter that admits one call more than max_requests.
AdmitsOneMore(count) == count <= max_requests + 1

\* Line 54: entry.count <= self.max_requests
Admits(count) == count <= max_requests

\* Lines 43-46: windows.entry(key).or_insert(...)
EntryOrInsert(c) ==
    IF c.key \in DOMAIN windows THEN windows[c.key]
    ELSE [count |-> 0, reset_at |-> c.now + window_secs,
          granted |-> 0, admitted |-> << >>]

\* Lines 48-51: the window is over for the clock reading of the call.
EntryReset(c) ==
    IF c.now >= EntryOrInsert(c).reset_at
    THEN [EntryOrInsert(c) EXCEPT !.count = 0, !.reset_at = c.now + window_secs,
                                  !.granted = 0]
    ELSE EntryOrInsert(c)

Within(times, t) ==
    LET Recent(u) == t - u < window_secs IN SelectSeq(times, Recent)

\* Lines 53-54, with the observations.
EntryCounted(c) ==
    LET entry == EntryReset(c)
    IN  IF Admits(entry.count + 1)
        THEN [entry EXCEPT !.count = @ + 1, !.granted = @ + 1,
                           !.admitted = Append(Within(@, now), now)]
        ELSE [entry EXCEPT !.count = @ + 1]

\* Lines 41-55: the part of check under the mutex.
CheckLocked(c) ==
    /\ c.call = "check"
    /\ windows' = [k \in DOMAIN windows \cup {c.key} |->
                      IF k = c.key THEN EntryCounted(c) ELSE windows[k]]
    /\ tasks' = tasks (-) SetToBag({c})
    /\ UNCHANGED now
    /\ UNCHANGED beside

NextLimit ==
    \/ ClockAdvances
    \/ \E ck \in ClientKeys : CallCheck(ck)
    \/ \E c \in BagToSet(tasks) : CheckLocked(c)

\* Lines 28-34: RateLimiter::new, at time 0.
SpecLimit == InitSubmit /\ [][NextLimit]_vars

\* C36, as stated: for each key, in any period of window_secs seconds no
\* more than max_requests calls of check return true.
C36_AtMostMaxPerPeriod ==
    \A ck \in DOMAIN windows : Len(windows[ck].admitted) <= max_requests

\* C36, amended: for each key, between two resets of the key's window no
\* more than max_requests calls of check return true.
C36_AtMostMaxPerWindow ==
    \A ck \in DOMAIN windows : windows[ck].granted <= max_requests

\* A key's window was reset, max_requests calls were admitted in it and one
\* more was refused, within window_secs seconds of an admission of the
\* window before.
C36_Witness ==
    \E ck \in DOMAIN windows :
       /\ windows[ck].reset_at > window_secs
       /\ windows[ck].granted = max_requests
       /\ windows[ck].count > max_requests
       /\ Len(windows[ck].admitted) > max_requests
====
